---- MODULE Spec2Model ----
(***************************************************************************)
(* k8schedul8r: time-window scaling of Kubernetes workloads.               *)
(*                                                                         *)
(* Specifications over one set of variables:                               *)
(*   Spec / FairSpec  the Scheduler control loop (Start, Stop,             *)
(*                    checkAndScale) together with the RemoteProvider's    *)
(*                    background pollConfig goroutine and its Stop; the    *)
(*                    scheduler is built by New with a positive interval;  *)
(*   SpecNew          the same with any Options.PollInterval given to New; *)
(*   SpecCRD          the CRDProvider cache (UpdateResource,               *)
(*                    DeleteResource, Load over sync.Map.Range) and the    *)
(*                    controller's Reconcile;                              *)
(*   SpecSrc          the LocalProvider, RemoteProvider and MultiProvider  *)
(*                    Load paths with the remote snapshot cache;           *)
(*   SpecScale        scaleResource against the cluster's Deployments and  *)
(*                    StatefulSets;                                        *)
(*   SpecFn           one call of a pure function (IsActive, Validate,     *)
(*                    GetDesiredReplicas, LocalProvider.Load, fetchConfig, *)
(*                    NewRemoteProvider) on inputs drawn from bounded sets;*)
(*   SpecStop /       RemoteProvider.Stop called directly by concurrent    *)
(*   FairSpecStop     goroutines beside pollConfig and a caller of Load.   *)
(***************************************************************************)
EXTENDS Integers, Sequences, FiniteSets, TLC

(***************************************************************************)
(* Bounds of the model.                                                    *)
(***************************************************************************)
NumStoppers == 2        \* concurrent callers of Scheduler.Stop
MaxTicks == 1           \* ticks the scheduler's ticker delivers
MaxPollTicks == 1       \* ticks the RemoteProvider's ticker delivers
MaxResources == 2       \* length of a resource list returned by Load
PassNow == 5            \* time.Now().Unix() observed by an evaluation pass
NumCRDKeys == 2         \* identities the CRDProvider cache may hold
MaxRaceWrites == 2      \* cache writes that may run during one CRDProvider.Load
MaxReplicas == 2        \* replica counts run from 0 to MaxReplicas
MaxScaleCalls == 2      \* scaleResource calls of one behaviour
NumLoaders == 2         \* concurrent callers of a source's Load
MaxTime == 2            \* the clock of the sources runs from 0 to MaxTime
PollInterval == 2       \* RemoteConfig.PollInterval, in clock units
MaxWindows == 2         \* windows of one resource
MaxReconciles == 2      \* Reconcile calls of one behaviour
MaxStamp == 2           \* window times and now run from 0 to MaxStamp

Stoppers == 1..NumStoppers

(***************************************************************************)
(* pkg/model: Resource, Target, ScalingWindow.                             *)
(***************************************************************************)
Window(s, e, n) == [startTime |-> s, endTime |-> e, replicas |-> n]

\* fmt's %d of a non-negative number
Digit(d) ==
    CASE d = 0 -> "0" [] d = 1 -> "1" [] d = 2 -> "2" [] d = 3 -> "3"
      [] d = 4 -> "4" [] d = 5 -> "5" [] d = 6 -> "6" [] d = 7 -> "7"
      [] d = 8 -> "8" [] d = 9 -> "9"

RECURSIVE Itoa(_)
Itoa(n) == IF n < 10 THEN Digit(n) ELSE Itoa(n \div 10) \o Digit(n % 10)

Resource(nm, ns, tn, tk, orig, ws) ==
    [name |-> nm, namespace |-> ns, target |-> [name |-> tn, kind |-> tk],
     originalReplicas |-> orig, windows |-> ws]

\* mutant of IsActive: the window still applies at its end time
IsActiveInclusiveEnd(w, now) == now >= w.startTime /\ now <= w.endTime

\* func (w *ScalingWindow) IsActive(now int64) bool
IsActive(w, now) == now >= w.startTime /\ now < w.endTime

\* mutant of WindowValidate: a negative count is accepted
WindowValidateAllowsNegative(w) ==
    IF w.startTime >= w.endTime THEN "start time must be before end time"
    ELSE "ok"

\* mutant of WindowValidate: an empty window (start = end) is accepted
WindowValidateAllowsEmpty(w) ==
    IF w.startTime > w.endTime THEN "start time must be before end time"
    ELSE IF w.replicas < 0 THEN "replicas cannot be negative"
    ELSE "ok"

\* func (w *ScalingWindow) Validate() error ; "ok" stands for nil
WindowValidate(w) ==
    IF w.startTime >= w.endTime THEN "start time must be before end time"
    ELSE IF w.replicas < 0 THEN "replicas cannot be negative"
    ELSE "ok"

\* mutant of FirstActive: the last active window wins
RECURSIVE FirstActiveLast(_, _, _)
FirstActiveLast(ws, now, i) ==
    IF i > Len(ws) THEN 0
    ELSE IF FirstActiveLast(ws, now, i + 1) # 0
         THEN FirstActiveLast(ws, now, i + 1)
    ELSE IF now >= ws[i].startTime /\ now < ws[i].endTime THEN i
    ELSE 0

\* func (r *Resource) GetDesiredReplicas(now int64) int32
RECURSIVE FirstActive(_, _, _)
FirstActive(ws, now, i) ==
    IF i > Len(ws) THEN 0
    ELSE IF IsActive(ws[i], now) THEN i
    ELSE FirstActive(ws, now, i + 1)

\* mutant of GetDesiredReplicas: without an active window the count is zero
GetDesiredReplicasZeroOutside(r, now) ==
    LET i == FirstActive(r.windows, now, 1)
    IN  IF i = 0 THEN 0 ELSE r.windows[i].replicas

GetDesiredReplicas(r, now) ==
    LET i == FirstActive(r.windows, now, 1)
    IN  IF i = 0 THEN r.originalReplicas ELSE r.windows[i].replicas

\* mutant of FirstInvalidWindow: the last window failing Validate is reported
RECURSIVE FirstInvalidWindowLast(_, _)
FirstInvalidWindowLast(ws, i) ==
    IF i > Len(ws) THEN 0
    ELSE IF FirstInvalidWindowLast(ws, i + 1) # 0
         THEN FirstInvalidWindowLast(ws, i + 1)
    ELSE IF ws[i].startTime >= ws[i].endTime \/ ws[i].replicas < 0 THEN i
    ELSE 0

\* index of the first window failing Validate, 0 when there is none
RECURSIVE FirstInvalidWindow(_, _)
FirstInvalidWindow(ws, i) ==
    IF i > Len(ws) THEN 0
    ELSE IF WindowValidate(ws[i]) # "ok" THEN i
    ELSE FirstInvalidWindow(ws, i + 1)

\* func (r *Resource) Validate() error ; "ok" stands for nil
ResourceValidate(r) ==
    IF r.name = "" THEN "resource name is required"
    ELSE IF r.namespace = "" THEN "namespace is required"
    ELSE IF r.target.name = "" THEN "target name is required"
    ELSE IF r.target.kind = "" THEN "target kind is required"
    ELSE IF r.originalReplicas < 0 THEN "original replicas cannot be negative"
    ELSE LET i == FirstInvalidWindow(r.windows, 1)
         IN  IF i # 0
             THEN "window " \o Itoa(i - 1) \o " is invalid: "
                      \o WindowValidate(r.windows[i])
             ELSE "ok"

IsValid(r) == ResourceValidate(r) = "ok"

(***************************************************************************)
(* Resources the configuration sources serve in this model.                *)
(***************************************************************************)
ResDeployment == Resource("web", "default", "web", "Deployment", 2, <<Window(0, 10, 5)>>)
ResStatefulSet == Resource("db", "default", "db", "StatefulSet", 1, <<>>)
ResCronJob == Resource("job", "default", "job", "CronJob", 1, <<Window(0, 3, 4)>>)
ResInvalid == Resource("bad", "default", "bad", "Deployment", 2, <<Window(7, 7, 3)>>)

Range(s) == {s[i] : i \in 1..Len(s)}

\* sequences without repetition over S, of length at most n
RECURSIVE DistinctSeqs(_, _)
DistinctSeqs(S, n) ==
    IF n = 0 THEN {<<>>}
    ELSE LET shorter == DistinctSeqs(S, n - 1)
         IN  shorter \cup
             UNION {{Append(s, x) : x \in S \ Range(s)} :
                    s \in {t \in shorter : Len(t) = n - 1}}

\* what provider.Load(true) hands the scheduler: lists of distinct
\* resources, in any order
SchedulerResources == {ResDeployment, ResStatefulSet, ResCronJob}
LoadLists == DistinctSeqs(SchedulerResources, MaxResources)

VARIABLES
    \* ---- Scheduler (pkg/scheduler/scheduler.go)
    providerKind,   \* dynamic type of s.provider: "local", "remote", "multi"
    pollInterval,   \* s.pollInterval, in seconds
    loopPc,         \* position of the goroutine running Scheduler.Start
    startResult,    \* value returned by Start: "none" until it returns
    ctxDone,        \* ctx.Done() is closed
    stopCh,         \* s.stopCh is closed
    closeCount,     \* number of close(s.stopCh) executed
    onceState,      \* s.stopOnce: "fresh", "running", "done"
    stopPc,         \* position of each caller of Scheduler.Stop
    wg,             \* counter of s.wg
    tickPending,    \* a tick is buffered in ticker.C
    ticksTaken,     \* ticks received by the loop's select
    passes,         \* evaluation passes begun (calls of checkAndScale)
    passesDone,     \* evaluation passes that returned
    passErr,        \* checkAndScale result of the last pass: "none"/"nil"/"load"
    lastLoad,       \* what provider.Load(true) returned in the last pass begun:
                    \* "none" before the first, "error", "empty", "resources"
    loaded,         \* resources of the pass in progress
    idx,            \* index of the next resource of the pass
    attempts,       \* scaleResource calls of the current pass, in call order
    scaleFailed,    \* some scaleResource call of the current pass failed
    \* ---- RemoteProvider lifecycle (unnamed/part_001)
    pollPc,         \* position of the pollConfig goroutine
    rStopCh,        \* r.stopCh is closed
    rCloseCount,    \* number of close(r.stopCh) executed
    rStopped,       \* r.stopped
    stoppedMu,      \* holder of r.stoppedMu, 0 when free
    rWg,            \* counter of r.wg
    rTickPending,   \* a tick is buffered in pollConfig's ticker.C
    pollFetches,    \* fetches begun by pollConfig
    \* ---- CRDProvider (pkg/config/crd.go)
    crdCache,       \* c.cache: key -> <<stored Resource>>, NoEntry when absent
    crdPc,          \* position of a Load call: "idle", "ranging", "returned"
    crdValidate,    \* the validate argument of that call
    crdVisited,     \* keys cache.Range has visited in that call
    crdResult,      \* the resources slice of that call
    crdDirty,       \* the cache was written since that call began
    crdRaces,       \* cache writes made while that call was ranging
    crdReads,       \* what that call's Range read at each key it visited
    crdInstants,    \* contents the cache had at some instant of that call
                    \* which agree with everything the call has read
    crdWritten,     \* per identity, the resource last passed to UpdateResource
                    \* and not removed by DeleteResource since
    crdDeleted,     \* identities removed by DeleteResource and not upserted since
    crdReplaced,    \* identities whose stored resource was replaced by another
                    \* and not removed since
    recCalls,       \* Reconcile calls made so far
    recLast,        \* the last Reconcile call: its request's key and what
                    \* r.Get read for it
    \* ---- LocalProvider, RemoteProvider, MultiProvider Load
    srcNow,         \* time.Now()
    srcCache,       \* r.cache: NoCache (nil) or <<cachedConfig>>
    cacheMu,        \* writer holding r.cacheMu, 0 when free
    loadPc,         \* position of each Load caller
    loadArg,        \* its receiver ("local", "remote", "multi") and validate; history:
                    \* whether a RemoteProvider.Stop had returned when it was called
    loadPartial,    \* MultiProvider.Load: allResources so far
    loadResult,     \* what the call returned: [err, resources]
    loadPath,       \* how RemoteProvider.Load returned: "none", "hit", "recheck",
                    \* "fetched", "fallback", "error"
    loadCalls,      \* the provider Load calls that returned within this call,
                    \* in order, each with its validate argument and result
    srcPollPc,      \* pollConfig: "wait", "fetch", "update"
    srcPollFetched, \* resources pollConfig fetched and has yet to store
    rsPc,           \* each direct caller of RemoteProvider.Stop: "idle", "lock", "wait", "returned"
    srcPollOvertaken, \* history: a fetch issued after pollConfig's pending one has stored its result
    \* ---- scaleResource and the cluster behind s.client
    cluster,        \* per workload kind, the object scaleResource addresses:
                    \* NoObject or <<[set, replicas]>> for its Spec.Replicas
    scPc,           \* position of a scaleResource call: "idle", "get", "update",
                    \* "returned"
    scRes,          \* its res argument
    scReplicas,     \* its replicas argument
    scNow,          \* now of the evaluation pass that made the call, NoPass
                    \* when scaleResource was called on its own
    scWrites,       \* successful client Update calls so far
    scErr,          \* the error it returned: "none" until then, "nil" for nil
    scGets,         \* client Get calls the call has made
    scUpdates,      \* client Update calls the call has made
    scCalls,        \* scaleResource calls made so far
    lastApplied,    \* per kind, the count the last successful scaleResource
                    \* asked for, NotApplied once anyone else wrote the object
    \* ---- one call of a function of pkg/model or of a source's decoding
    fnIn,           \* the call: the function's name, its receiver and arguments
    fnOut,          \* what it returned, "none" until it has
    fnPc            \* "idle" (no call), "ready" (about to be made), "done"

schedVars == <<providerKind, pollInterval, loopPc, startResult, ctxDone, stopCh, closeCount,
               onceState, stopPc, wg, tickPending, ticksTaken, passes,
               passesDone, passErr, loaded, idx, attempts, scaleFailed,
                   lastLoad>>
pollVars == <<pollPc, rStopCh, rCloseCount, rStopped, stoppedMu, rWg,
              rTickPending, pollFetches>>
crdVars == <<crdCache, crdPc, crdValidate, crdVisited, crdResult, crdDirty,
             crdRaces, crdReads, crdInstants, crdWritten, crdDeleted,
             crdReplaced, recCalls, recLast>>
scaleVars == <<cluster, scPc, scRes, scReplicas, scNow, scWrites, scErr, scGets,
               scUpdates, scCalls, lastApplied>>
srcVars == <<srcNow, srcCache, cacheMu, loadPc, loadArg, loadPartial, loadResult,
             loadPath, loadCalls, srcPollPc, srcPollFetched,
             srcPollOvertaken>>
fnVars == <<fnIn, fnOut, fnPc>>
rsVars == <<rsPc>>
sourceVars == <<crdVars, srcVars, scaleVars, fnVars, rsVars>>
vars == <<schedVars, pollVars, sourceVars>>

ProviderKinds == {"local", "remote", "multi"}

\* main: a MultiProvider is built when more than one provider is enabled;
\* in this model the composite is MultiProvider(LocalProvider, RemoteProvider)
HasRemote(kind) == kind \in {"remote", "multi"}

\* Scheduler.Stop: remoteProvider, ok := s.provider.(*config.RemoteProvider)
IsRemoteProvider(kind) == kind = "remote"

(***************************************************************************)
(* CRDProvider: a sync.Map keyed by "namespace/name".                      *)
(***************************************************************************)
\* a key's slot in the map: <<>> when the key is absent, <<resource>> else
NoEntry == <<>>

\* fmt.Sprintf("%s/%s", namespace, name)
Key(namespace, name) == namespace \o "/" \o name

Names == <<"web", "db", "job", "api">>
CRDNames == {Names[i] : i \in 1..NumCRDKeys}

\* the resources a watch mechanism may upsert: per name a valid version and
\* one that fails Resource.Validate
CRDResources ==
    {Resource(n, "default", n, "Deployment", 2, <<Window(0, 10, 5)>>) : n \in CRDNames}
    \cup {Resource(n, "default", n, "Deployment", 0 - 1, <<>>) : n \in CRDNames}

CRDKeys == {Key(r.namespace, r.name) : r \in CRDResources}

\* what r.Get(ctx, req.NamespacedName, &scheduledResource) gives Reconcile:
\* a not-found error, another error, or the object, here as the
\* model.Resource it converts to
NotFound == [kind |-> "notfound", object |-> <<>>]
ReadError == [kind |-> "error", object |-> <<>>]
Found(resource) == [kind |-> "found", object |-> <<resource>>]
Reads(key) ==
    {NotFound, ReadError}
    \cup {Found(r) : r \in {q \in CRDResources : Key(q.namespace, q.name) = key}}

NoReconcile == [key |-> "", read |-> ReadError]

\* NewCRDProvider: cache: &sync.Map{}
CRDInit ==
    /\ crdCache = [k \in CRDKeys |-> NoEntry]
    /\ crdPc = "idle"
    /\ crdValidate = FALSE
    /\ crdVisited = {}
    /\ crdResult = <<>>
    /\ crdDirty = FALSE
    /\ crdRaces = 0
    /\ crdReads = [k \in CRDKeys |-> NoEntry]
    /\ crdInstants = {}
    /\ crdWritten = [k \in CRDKeys |-> NoEntry]
    /\ crdDeleted = {}
    /\ crdReplaced = {}
    /\ recCalls = 0
    /\ recLast = NoReconcile

(***************************************************************************)
(* LocalProvider, RemoteProvider, MultiProvider: documents and the cache.  *)
(***************************************************************************)
Loaders == 1..NumLoaders

\* the decoded contents a configuration document may have
SrcDocs == {<<>>, <<ResDeployment>>, <<ResInvalid>>, <<ResDeployment, ResInvalid>>}

\* what the file at l.path holds when LocalProvider.Load reads it
LocalFiles ==
    {[state |-> "unreadable", doc |-> <<>>], [state |-> "malformed", doc |-> <<>>]}
    \cup {[state |-> "ok", doc |-> d] : d \in SrcDocs}

\* what httpClient.Do returns: status 0 stands for a transport error
Responses ==
    {[status |-> 0, wellFormed |-> TRUE, doc |-> <<>>],
     [status |-> 503, wellFormed |-> TRUE, doc |-> <<>>],
     [status |-> 200, wellFormed |-> FALSE, doc |-> <<>>]}
    \cup {[status |-> 200, wellFormed |-> TRUE, doc |-> d] : d \in SrcDocs}

NoCache == <<>>

\* no Load call is under way
NoLoadArg == [via |-> "local", validate |-> FALSE, afterStop |-> FALSE]
NilResult == [err |-> "none", resources |-> <<>>]

\* index of the first resource failing Validate, 0 when there is none
RECURSIVE FirstInvalidResource(_, _)
FirstInvalidResource(rs, i) ==
    IF i > Len(rs) THEN 0
    ELSE IF ~IsValid(rs[i]) THEN i
    ELSE FirstInvalidResource(rs, i + 1)

Failed(e) == [err |-> e, resources |-> <<>>]
Loaded(rs) == [err |-> "nil", resources |-> rs]

\* mutant of LocalLoad: an empty document is refused whatever validate is
LocalLoadRefusesEmpty(file, validate) ==
    IF file.state = "unreadable" THEN Failed("failed to read config file")
    ELSE IF file.state = "unsupported" THEN Failed("unsupported file format")
    ELSE IF file.state = "malformed" THEN Failed("failed to parse config")
    ELSE IF Len(file.doc) = 0 THEN Failed("no resources defined")
    ELSE IF validate /\ FirstInvalidResource(file.doc, 1) # 0
         THEN Failed("resource validation failed")
    ELSE Loaded(file.doc)

\* func (l *LocalProvider) Load(validate bool) ([]model.Resource, error)
LocalLoad(file, validate) ==
    IF file.state = "unreadable" THEN Failed("failed to read config file")
    ELSE IF file.state = "unsupported" THEN Failed("unsupported file format")
    ELSE IF file.state = "malformed" THEN Failed("failed to parse config")
    ELSE IF validate /\ Len(file.doc) = 0 THEN Failed("no resources defined")
    ELSE IF validate /\ FirstInvalidResource(file.doc, 1) # 0
         THEN Failed("resource validation failed")
    ELSE Loaded(file.doc)

\* func (r *RemoteProvider) fetchConfig(validate bool) ([]model.Resource, error)
FetchConfig(resp, validate) ==
    IF resp.status = 0 THEN Failed("failed to fetch configuration")
    ELSE IF resp.status # 200
         THEN Failed("unexpected status code " \o Itoa(resp.status))
    ELSE IF ~resp.wellFormed THEN Failed("failed to parse configuration")
    ELSE IF validate /\ FirstInvalidResource(resp.doc, 1) # 0
         THEN Failed("resource validation failed")
    ELSE Loaded(resp.doc)

\* mutant of CacheFresh: no snapshot is ever taken as fresh
CacheFreshNever(cache, now) == FALSE

\* cache != nil && time.Since(cache.fetchedAt) < r.config.PollInterval
CacheFresh(cache, now) ==
    cache # NoCache /\ now - cache[1].fetchedAt < PollInterval

\* mutant of NewSnapshot: the resources are swapped in, the fetch time is not
NewSnapshotKeepsTime(resources, now) == <<[resources |-> resources, fetchedAt |-> 0]>>

\* r.cache = &cachedConfig{resources: resources, fetchedAt: time.Now()}
NewSnapshot(resources, now) == <<[resources |-> resources, fetchedAt |-> now]>>

\* NewLocalProvider, NewRemoteProvider (cache nil), NewMultiProvider
SrcInit ==
    /\ srcNow = 0
    /\ srcCache = NoCache
    /\ cacheMu = 0
    /\ loadPc = [l \in Loaders |-> "idle"]
    /\ loadArg = [l \in Loaders |-> NoLoadArg]
    /\ loadPartial = [l \in Loaders |-> <<>>]
    /\ loadResult = [l \in Loaders |-> NilResult]
    /\ loadPath = [l \in Loaders |-> "none"]
    /\ loadCalls = [l \in Loaders |-> <<>>]
    /\ srcPollPc = "wait"
    /\ srcPollFetched = <<>>
    /\ srcPollOvertaken = FALSE

(***************************************************************************)
(* The cluster behind s.client.                                            *)
(***************************************************************************)
\* mutant of ClientKinds: only Deployments are dispatched to the client
ClientKindsDeploymentOnly == {"Deployment"}

\* scaleResource: case "Deployment", case "StatefulSet"
ClientKinds == {"Deployment", "StatefulSet"}
NoObject == <<>>
NotApplied == 0 - 1
NoPass == 0 - 1

\* an apps/v1 object as far as the scaler reads it: Spec.Replicas (*int32)
Object(set, replicas) == <<[set |-> set, replicas |-> replicas]>>

\* mutant of AlreadyAt: the object is updated whatever its count
AlreadyAtNever(obj, replicas) == FALSE

\* deployment.Spec.Replicas != nil && *deployment.Spec.Replicas == replicas
AlreadyAt(obj, replicas) == obj[1].set /\ obj[1].replicas = replicas

Objects ==
    {NoObject, Object(FALSE, 0)} \cup {Object(TRUE, n) : n \in 0..MaxReplicas}

\* kubernetes.Interface handed to New; the workloads exist with one replica
ScaleInit ==
    /\ cluster = [k \in ClientKinds |-> Object(TRUE, 1)]
    /\ scPc = "idle"
    /\ scRes = ResDeployment
    /\ scReplicas = 0
    /\ scNow = NoPass
    /\ scWrites = 0
    /\ scErr = "none"
    /\ scGets = 0
    /\ scUpdates = 0
    /\ scCalls = 0
    /\ lastApplied = [k \in ClientKinds |-> NotApplied]

(***************************************************************************)
(* State after New (and NewRemoteProvider, which has spawned pollConfig).  *)
(***************************************************************************)
(***************************************************************************)
(* Calls of the functions of pkg/model and of the sources' decoding, one   *)
(* per behaviour, over every receiver and argument within the bounds.      *)
(***************************************************************************)
\* ScalingWindow values: every start and end time up to MaxStamp, a negative
\* and a positive count
WindowReplicas == {0 - 1, 2}
FnWindows ==
    {Window(s, e, n) : s \in 0..MaxStamp, e \in 0..MaxStamp, n \in WindowReplicas}

\* Resource.Windows: every sequence of at most MaxWindows windows
WindowLists == UNION {[1..n -> FnWindows] : n \in 0..MaxWindows}

\* Resource values whose fields are all set, over every window list
WindowedResources ==
    {Resource("web", "default", "web", "Deployment", 3, ws) : ws \in WindowLists}

\* Resource values over set and empty strings, negative, zero and positive
\* base counts, without and with one window
FieldStrings(set) == {"", set}
AnyResources ==
    {Resource(nm, ns, tn, tk, orig, ws) :
        nm \in FieldStrings("web"), ns \in FieldStrings("default"),
        tn \in FieldStrings("web"), tk \in FieldStrings("Deployment"),
        orig \in {0 - 1, 0, 3}, ws \in {<<>>} \cup {<<w>> : w \in FnWindows}}

\* files LocalProvider.Load may find, one of them with an extension that is
\* neither .yaml, .yml nor .json
AnyFiles == LocalFiles \cup {[state |-> "unsupported", doc |-> <<>>]}

\* responses fetchConfig may get, two of them with a 2xx status other than 200
AnyResponses ==
    Responses \cup {[status |-> 201, wellFormed |-> TRUE, doc |-> d] : d \in SrcDocs}
              \cup {[status |-> 404, wellFormed |-> TRUE, doc |-> <<>>]}

\* header values and URLs, as the sequence of their parts
NoText == <<>>
ContentTypes ==
    {NoText, <<"application/", "json">>, <<"application/", "yaml">>,
     <<"text/", "x-", "yml">>, <<"text/", "plain">>,
     <<"application/", "json", "; charset=utf-8">>}
URLs ==
    {NoText, <<"http://cfg/resources">>, <<"http://cfg/resources", ".json">>,
     <<"http://cfg/resources", ".yaml">>, <<"http://cfg/resources", ".yml">>}

\* strings.Contains, strings.HasSuffix
Contains(text, part) == \E i \in 1..Len(text) : text[i] = part
HasSuffix(text, part) == Len(text) > 0 /\ text[Len(text)] = part

\* fetchConfig: which Unmarshal the body is handed to
Decoder(contentType, url) ==
    IF \/ Contains(contentType, "yaml") \/ Contains(contentType, "yml")
       \/ HasSuffix(url, ".yaml") \/ HasSuffix(url, ".yml")
    THEN "yaml" ELSE "json"

\* mutant of NewRemoteProvider: a zero interval is accepted
NewRemoteProviderAllowsZero(url, interval) ==
    IF url = NoText THEN [err |-> "URL is required", tasks |-> 0]
    ELSE IF interval < 0
         THEN [err |-> "poll interval must be positive", tasks |-> 0]
    ELSE [err |-> "nil", tasks |-> 1]

\* func NewRemoteProvider(config RemoteConfig) (*RemoteProvider, error);
\* tasks counts the pollConfig goroutines it started
NewRemoteProvider(url, interval) ==
    IF url = NoText THEN [err |-> "URL is required", tasks |-> 0]
    ELSE IF interval <= 0
         THEN [err |-> "poll interval must be positive", tasks |-> 0]
    ELSE [err |-> "nil", tasks |-> 1]

Call(op, w, res, now, file, resp, validate) ==
    [op |-> op, w |-> w, res |-> res, now |-> now, file |-> file, resp |-> resp,
     validate |-> validate, contentType |-> NoText, url |-> NoText, interval |-> 0]

NoCall ==
    Call("none", Window(0, 0, 0), ResDeployment, 0,
         [state |-> "unreadable", doc |-> <<>>],
         [status |-> 0, wellFormed |-> TRUE, doc |-> <<>>], FALSE)

\* the calls made, by function
IsActiveCalls ==
    {[NoCall EXCEPT !.op = "IsActive", !.w = w, !.now = now] :
        w \in FnWindows, now \in 0..MaxStamp}
WindowValidateCalls ==
    {[NoCall EXCEPT !.op = "WindowValidate", !.w = w] : w \in FnWindows}
GetDesiredReplicasCalls ==
    {[NoCall EXCEPT !.op = "GetDesiredReplicas", !.res = r, !.now = now] :
        r \in WindowedResources, now \in 0..MaxStamp}
ValidateCalls ==
    {[NoCall EXCEPT !.op = "Validate", !.res = r] : r \in AnyResources}
ValidateWindowsCalls ==
    {[NoCall EXCEPT !.op = "Validate", !.res = r] : r \in WindowedResources}
LocalLoadCalls ==
    {[NoCall EXCEPT !.op = "LocalLoad", !.file = f, !.validate = v] :
        f \in AnyFiles, v \in BOOLEAN}
FetchConfigCalls ==
    {[NoCall EXCEPT !.op = "FetchConfig", !.resp = r, !.validate = v] :
        r \in AnyResponses, v \in BOOLEAN}
DecoderCalls ==
    {[NoCall EXCEPT !.op = "Decoder", !.contentType = c, !.url = u] :
        c \in ContentTypes, u \in URLs \ {NoText}}
NewRemoteProviderCalls ==
    {[NoCall EXCEPT !.op = "NewRemoteProvider", !.url = u, !.interval = i] :
        u \in URLs, i \in {0 - 1, 0, 1}}

\* no function call is under way
FnInit ==
    /\ fnIn = NoCall
    /\ fnOut = "none"
    /\ fnPc = "idle"

\* opts.PollInterval values handed to New: negative, zero, positive
IntervalOptions == {0 - 1, 0, 1}

\* 30 * time.Second
DefaultPollInterval == 30

\* New: if opts.PollInterval == 0 { opts.PollInterval = 30 * time.Second }
NewPollInterval(interval) ==
    IF interval = 0 THEN DefaultPollInterval ELSE interval

\* the state New(opts) leaves behind, for opts.PollInterval = interval
InitOptions(interval) ==
    /\ providerKind \in ProviderKinds
    /\ pollInterval = NewPollInterval(interval)
    /\ loopPc = "idle"
    /\ startResult = "none"
    /\ ctxDone = FALSE
    /\ stopCh = FALSE
    /\ closeCount = 0
    /\ onceState = "fresh"
    /\ stopPc = [c \in Stoppers |-> "idle"]
    /\ wg = 0
    /\ tickPending = FALSE
    /\ ticksTaken = 0
    /\ passes = 0
    /\ passesDone = 0
    /\ passErr = "none"
    /\ lastLoad = "none"
    /\ loaded = <<>>
    /\ idx = 0
    /\ attempts = <<>>
    /\ scaleFailed = FALSE
    /\ pollPc = IF HasRemote(providerKind) THEN "spawned" ELSE "none"
    /\ rStopCh = FALSE
    /\ rCloseCount = 0
    /\ rStopped = FALSE
    /\ stoppedMu = 0
    /\ rWg = 0
    /\ rTickPending = FALSE
    /\ pollFetches = 0
    /\ rsPc = [c \in Stoppers |-> "idle"]
    /\ CRDInit
    /\ SrcInit
    /\ ScaleInit

\* New called with the zero PollInterval, which selects the default
Init == InitOptions(0) /\ FnInit

(***************************************************************************)
(* Scheduler.Start: wg.Add(1), the ticker, the immediate check, the loop.  *)
(***************************************************************************)
LoopRunning == loopPc \notin {"idle", "returned", "panicked"}

\* mutant of AfterStartBegin: Start waits for the first tick before checking
AfterStartBeginNoInitialCheck == "select"

\* where Start goes after wg.Add(1) and time.NewTicker: the initial check
AfterStartBegin == "pass"

\* sched.Start(ctx) is called (by main, by a test) and runs up to the
\* initial check
StartBegin ==
    /\ loopPc = "idle"
    /\ pollInterval > 0
    /\ wg' = wg + 1
    /\ loopPc' = AfterStartBegin
    /\ UNCHANGED <<providerKind, startResult, ctxDone, stopCh, closeCount,
                   onceState, stopPc, tickPending, ticksTaken, passes,
                   passesDone, passErr, loaded, idx, attempts, scaleFailed,
                   lastLoad>>
    /\ UNCHANGED <<pollInterval, pollVars, sourceVars>>

\* sched.Start(ctx) on a scheduler whose interval is not positive:
\* wg.Add(1), then time.NewTicker(s.pollInterval) panics ("non-positive
\* interval for NewTicker"); the deferred wg.Done runs while the panic
\* unwinds, nothing recovers it
StartPanic ==
    /\ loopPc = "idle"
    /\ pollInterval <= 0
    /\ loopPc' = "panicked"
    /\ UNCHANGED <<providerKind, startResult, ctxDone, stopCh, closeCount,
                   onceState, stopPc, wg, tickPending, ticksTaken, passes,
                   passesDone, passErr, loaded, idx, attempts, scaleFailed,
                   lastLoad>>
    /\ UNCHANGED <<pollInterval, pollVars, sourceVars>>

\* results of s.provider.Load(true) as the Provider interface allows them
LoadOutcomes == {[err |-> TRUE, resources |-> <<>>]}
                \cup {[err |-> FALSE, resources |-> l] : l \in LoadLists}

\* mutant of AfterLoadError: Start returns when the check fails
AfterLoadErrorReturns == "returned"

\* checkAndScale when Load failed: log, return the wrapped error
AfterLoadError == "select"

\* mutant of AfterEmptyLoad: Start returns when no resource is configured
AfterEmptyLoadReturns == "returned"

\* checkAndScale when Load returned no resources: log, return nil
AfterEmptyLoad == "select"

\* mutant of PassCanBegin: a tick starts checkAndScale although the
\* previous call has not returned
PassCanBeginOverlapping(pc) == pc \in {"pass", "scaling"}

\* checkAndScale is called from the loop goroutine only, one call at a time
PassCanBegin(pc) == pc = "pass"

\* checkAndScale up to the resource loop: Load, the error return, the
\* "No resources loaded" return
PassLoad ==
    /\ PassCanBegin(loopPc)
    /\ passes' = passes + 1
    /\ \E out \in LoadOutcomes :
         IF out.err
         THEN /\ passErr' = "load"
              /\ lastLoad' = "error"
              /\ passesDone' = passesDone + 1
              /\ loopPc' = AfterLoadError
              /\ loaded' = <<>>
              /\ idx' = 0
         ELSE IF Len(out.resources) = 0
         THEN /\ passErr' = "nil"
              /\ lastLoad' = "empty"
              /\ passesDone' = passesDone + 1
              /\ loopPc' = AfterEmptyLoad
              /\ loaded' = <<>>
              /\ idx' = 0
         ELSE /\ passErr' = "none"
              /\ lastLoad' = "resources"
              /\ passesDone' = passesDone
              /\ loopPc' = "scaling"
              /\ loaded' = out.resources
              /\ idx' = 1
    /\ attempts' = <<>>
    /\ scaleFailed' = FALSE
    /\ UNCHANGED <<providerKind, startResult, ctxDone, stopCh, closeCount,
                   onceState, stopPc, wg, tickPending, ticksTaken>>
    /\ UNCHANGED <<pollInterval, pollVars, sourceVars>>

\* scaleResource with scaleDeployment / scaleStatefulSet: the outcomes the
\* client's Get and Update allow
ScaleOutcomes(res) ==
    IF res.target.kind \in {"Deployment", "StatefulSet"}
    THEN {"get_err", "noop", "update_err", "updated"}
    ELSE {"unsupported"}

IsScaleErr(o) == o \in {"get_err", "update_err", "unsupported"}

\* mutant of NextIndex: a failed scaleResource ends the loop (break)
NextIndexBreakOnError(o, i, n) == IF IsScaleErr(o) THEN n + 1 ELSE i + 1

\* for _, res := range resources: the index after resource i, whose
\* scaleResource call had outcome o (an error is logged, then `continue`)
NextIndex(o, i, n) == i + 1

\* one iteration of the resource loop of checkAndScale
ScaleOne ==
    /\ loopPc = "scaling"
    /\ LET res == loaded[idx]
           replicas == GetDesiredReplicas(res, PassNow)
       IN  \E o \in ScaleOutcomes(res) :
             LET nxt == NextIndex(o, idx, Len(loaded))
             IN  IF nxt > Len(loaded)
                 THEN \* the loop is over: return nil, the locals die
                      /\ loopPc' = "select"
                      /\ passErr' = "nil"
                      /\ passesDone' = passesDone + 1
                      /\ loaded' = <<>>
                      /\ idx' = 0
                      /\ attempts' = <<>>
                      /\ scaleFailed' = FALSE
                 ELSE /\ loopPc' = "scaling"
                      /\ passErr' = passErr
                      /\ passesDone' = passesDone
                      /\ loaded' = loaded
                      /\ idx' = nxt
                      /\ attempts' = Append(attempts, [i |-> idx, replicas |-> replicas])
                      /\ scaleFailed' = (scaleFailed \/ IsScaleErr(o))
    /\ UNCHANGED <<providerKind, startResult, ctxDone, stopCh, closeCount,
                   onceState, stopPc, wg, tickPending, ticksTaken, passes,
                   lastLoad>>
    /\ UNCHANGED <<pollInterval, pollVars, sourceVars>>

\* return nil with the deferred ticker.Stop() and s.wg.Done()
StartReturn ==
    /\ loopPc' = "returned"
    /\ startResult' = "nil"
    /\ wg' = wg - 1
    /\ tickPending' = FALSE

\* select: case <-ctx.Done() is ready and chosen
SelectCtx ==
    /\ loopPc = "select"
    /\ ctxDone
    /\ StartReturn
    /\ UNCHANGED <<providerKind, ctxDone, stopCh, closeCount, onceState, stopPc,
                   ticksTaken, passes, passesDone, passErr, loaded, idx,
                   attempts, scaleFailed,
                   lastLoad>>
    /\ UNCHANGED <<pollInterval, pollVars, sourceVars>>

\* select: case <-s.stopCh is ready and chosen
SelectStop ==
    /\ loopPc = "select"
    /\ stopCh
    /\ StartReturn
    /\ UNCHANGED <<providerKind, ctxDone, stopCh, closeCount, onceState, stopPc,
                   ticksTaken, passes, passesDone, passErr, loaded, idx,
                   attempts, scaleFailed,
                   lastLoad>>
    /\ UNCHANGED <<pollInterval, pollVars, sourceVars>>

\* the loop position a received tick leads to
TickBranch(pc) == "pass"

\* select: case <-ticker.C is ready and chosen
SelectTick ==
    /\ loopPc = "select"
    /\ tickPending
    /\ tickPending' = FALSE
    /\ ticksTaken' = ticksTaken + 1
    /\ loopPc' = TickBranch(loopPc)
    /\ UNCHANGED <<providerKind, startResult, ctxDone, stopCh, closeCount,
                   onceState, stopPc, wg, passes, passesDone, passErr, loaded,
                   idx, attempts, scaleFailed,
                   lastLoad>>
    /\ UNCHANGED <<pollInterval, pollVars, sourceVars>>

\* select with no ready case: the goroutine parks on the three channels
SelectBlock ==
    /\ loopPc = "select"
    /\ ~ctxDone /\ ~stopCh /\ ~tickPending
    /\ loopPc' = "blocked"
    /\ UNCHANGED <<providerKind, startResult, ctxDone, stopCh, closeCount,
                   onceState, stopPc, wg, tickPending, ticksTaken, passes,
                   passesDone, passErr, loaded, idx, attempts, scaleFailed,
                   lastLoad>>
    /\ UNCHANGED <<pollInterval, pollVars, sourceVars>>

\* the parked goroutine was woken by ctx.Done() or s.stopCh and returns
WokeReturn ==
    /\ loopPc \in {"woke_ctx", "woke_stop"}
    /\ StartReturn
    /\ UNCHANGED <<providerKind, ctxDone, stopCh, closeCount, onceState, stopPc,
                   ticksTaken, passes, passesDone, passErr, loaded, idx,
                   attempts, scaleFailed,
                   lastLoad>>
    /\ UNCHANGED <<pollInterval, pollVars, sourceVars>>

\* the context is cancelled (signal handler, test timeout)
Cancel ==
    /\ ~ctxDone
    /\ ctxDone' = TRUE
    /\ loopPc' = IF loopPc = "blocked" THEN "woke_ctx" ELSE loopPc
    /\ UNCHANGED <<providerKind, startResult, stopCh, closeCount, onceState,
                   stopPc, wg, tickPending, ticksTaken, passes, passesDone,
                   passErr, loaded, idx, attempts, scaleFailed,
                   lastLoad>>
    /\ UNCHANGED <<pollInterval, pollVars, sourceVars>>

\* the ticker of Start fires: handed to the parked loop, else buffered
\* (ticker.C has capacity 1; a tick that finds it full is dropped)
Tick ==
    /\ LoopRunning
    /\ ~tickPending
    /\ ticksTaken < MaxTicks
    /\ IF loopPc = "blocked"
       THEN /\ loopPc' = TickBranch(loopPc)
            /\ ticksTaken' = ticksTaken + 1
            /\ tickPending' = FALSE
       ELSE /\ tickPending' = TRUE
            /\ UNCHANGED <<loopPc, ticksTaken>>
    /\ UNCHANGED <<providerKind, startResult, ctxDone, stopCh, closeCount,
                   onceState, stopPc, wg, passes, passesDone, passErr, loaded,
                   idx, attempts, scaleFailed,
                   lastLoad>>
    /\ UNCHANGED <<pollInterval, pollVars, sourceVars>>

(***************************************************************************)
(* Scheduler.Stop: stopOnce.Do(close, remoteProvider.Stop), then wg.Wait.  *)
(***************************************************************************)
\* a goroutine calls sched.Stop()
StopCall(c) ==
    /\ stopPc[c] = "idle"
    /\ stopPc' = [stopPc EXCEPT ![c] = "once"]
    /\ UNCHANGED <<providerKind, loopPc, startResult, ctxDone, stopCh, closeCount,
                   onceState, wg, tickPending, ticksTaken, passes, passesDone,
                   passErr, loaded, idx, attempts, scaleFailed,
                   lastLoad>>
    /\ UNCHANGED <<pollInterval, pollVars, sourceVars>>

\* mutant of OnceCanRun: no Once, every caller that arrives before the
\* function has returned runs it
OnceCanRunUnguarded(st) == st # "done"

\* sync.Once: the caller that finds the Once unused runs the function
OnceCanRun(st) == st = "fresh"

\* sync.Once: every other caller of Do returns once the function has returned
OnceSkip(c) ==
    /\ stopPc[c] = "once"
    /\ onceState = "done"
    /\ stopPc' = [stopPc EXCEPT ![c] = "wait"]
    /\ UNCHANGED <<providerKind, loopPc, startResult, ctxDone, stopCh, closeCount,
                   onceState, wg, tickPending, ticksTaken, passes, passesDone,
                   passErr, loaded, idx, attempts, scaleFailed,
                   lastLoad>>
    /\ UNCHANGED <<pollInterval, pollVars, sourceVars>>

\* stopOnce.Do runs the function: close(s.stopCh), then the type assertion
\* on s.provider; closing a closed channel panics
StopClose(c) ==
    /\ stopPc[c] = "once"
    /\ OnceCanRun(onceState)
    /\ closeCount' = closeCount + 1
    /\ stopCh' = TRUE
    /\ loopPc' = IF loopPc = "blocked" THEN "woke_stop" ELSE loopPc
    /\ IF stopCh
       THEN /\ stopPc' = [stopPc EXCEPT ![c] = "panic"]
            /\ onceState' = "running"
       ELSE IF IsRemoteProvider(providerKind)
       THEN /\ stopPc' = [stopPc EXCEPT ![c] = "rstop"]
            /\ onceState' = "running"
       ELSE /\ stopPc' = [stopPc EXCEPT ![c] = "wait"]
            /\ onceState' = "done"
    /\ UNCHANGED <<providerKind, startResult, ctxDone, wg, tickPending,
                   ticksTaken, passes, passesDone, passErr, loaded, idx,
                   attempts, scaleFailed,
                   lastLoad>>
    /\ UNCHANGED <<pollInterval, pollVars, sourceVars>>

\* mutant of StopNeeded: the channel is closed whatever r.stopped says
StopNeededAlways(stopped) == TRUE

\* RemoteProvider.Stop: if !r.stopped
StopNeeded(stopped) == ~stopped

\* RemoteProvider.Stop: stoppedMu.Lock(); if !stopped { close(stopCh);
\* stopped = true ...
RStopLock(c) ==
    /\ stopPc[c] = "rstop"
    /\ stoppedMu = 0
    /\ IF StopNeeded(rStopped)
       THEN /\ rStopCh' = TRUE
            /\ rCloseCount' = rCloseCount + 1
            /\ rStopped' = TRUE
            /\ stoppedMu' = c
            /\ pollPc' = IF pollPc = "blocked" THEN "woke_stop" ELSE pollPc
            /\ stopPc' = [stopPc EXCEPT ![c] = "rwait"]
            /\ UNCHANGED onceState
       ELSE /\ stopPc' = [stopPc EXCEPT ![c] = "wait"]
            /\ onceState' = "done"
            /\ UNCHANGED <<rStopCh, rCloseCount, rStopped, stoppedMu, pollPc>>
    /\ UNCHANGED <<providerKind, loopPc, startResult, ctxDone, stopCh, closeCount,
                   wg, tickPending, ticksTaken, passes, passesDone, passErr,
                   loaded, idx, attempts, scaleFailed,
                   lastLoad>>
    /\ UNCHANGED <<rWg, rTickPending, pollFetches>>
    /\ UNCHANGED <<pollInterval, sourceVars>>

\* ... r.wg.Wait() }, the deferred stoppedMu.Unlock(); the Once is done
RStopWait(c) ==
    /\ stopPc[c] = "rwait"
    /\ rWg = 0
    /\ stoppedMu' = 0
    /\ onceState' = "done"
    /\ stopPc' = [stopPc EXCEPT ![c] = "wait"]
    /\ UNCHANGED <<providerKind, loopPc, startResult, ctxDone, stopCh, closeCount,
                   wg, tickPending, ticksTaken, passes, passesDone, passErr,
                   loaded, idx, attempts, scaleFailed,
                   lastLoad>>
    /\ UNCHANGED <<pollPc, rStopCh, rCloseCount, rStopped, rWg, rTickPending,
                   pollFetches>>
    /\ UNCHANGED <<pollInterval, sourceVars>>

\* mutant of WaitDone: Wait is released only by a negative counter
WaitDoneNever(n) == n < 0

\* sync.WaitGroup.Wait returns when the counter is zero
WaitDone(n) == n = 0

\* s.wg.Wait(), then Stop returns
StopWait(c) ==
    /\ stopPc[c] = "wait"
    /\ WaitDone(wg)
    /\ stopPc' = [stopPc EXCEPT ![c] = "returned"]
    /\ UNCHANGED <<providerKind, loopPc, startResult, ctxDone, stopCh, closeCount,
                   onceState, wg, tickPending, ticksTaken, passes, passesDone,
                   passErr, loaded, idx, attempts, scaleFailed,
                   lastLoad>>
    /\ UNCHANGED <<pollInterval, pollVars, sourceVars>>

(***************************************************************************)
(* RemoteProvider.pollConfig, the goroutine NewRemoteProvider spawns.      *)
(***************************************************************************)
PollRunning == pollPc \notin {"none", "exited"}

\* r.wg.Add(1) and time.NewTicker, executed by the goroutine itself
PollBegin ==
    /\ pollPc = "spawned"
    /\ rWg' = rWg + 1
    /\ pollPc' = "select"
    /\ UNCHANGED <<schedVars, sourceVars>>
    /\ UNCHANGED <<rStopCh, rCloseCount, rStopped, stoppedMu, rTickPending,
                   pollFetches>>

\* return with the deferred ticker.Stop() and r.wg.Done()
PollReturn ==
    /\ pollPc' = "exited"
    /\ rWg' = rWg - 1
    /\ rTickPending' = FALSE

\* select: case <-r.stopCh is ready and chosen
PollSelectStop ==
    /\ pollPc = "select"
    /\ rStopCh
    /\ PollReturn
    /\ UNCHANGED <<schedVars, sourceVars>>
    /\ UNCHANGED <<rStopCh, rCloseCount, rStopped, stoppedMu, pollFetches>>

\* select: case <-ticker.C is ready and chosen: fetchConfig(true) begins
PollSelectTick ==
    /\ pollPc = "select"
    /\ rTickPending
    /\ rTickPending' = FALSE
    /\ pollFetches' = pollFetches + 1
    /\ pollPc' = "fetch"
    /\ UNCHANGED <<schedVars, sourceVars>>
    /\ UNCHANGED <<rStopCh, rCloseCount, rStopped, stoppedMu, rWg>>

\* select with no ready case: the goroutine parks
PollSelectBlock ==
    /\ pollPc = "select"
    /\ ~rStopCh /\ ~rTickPending
    /\ pollPc' = "blocked"
    /\ UNCHANGED <<schedVars, sourceVars>>
    /\ UNCHANGED <<rStopCh, rCloseCount, rStopped, stoppedMu, rWg, rTickPending,
                   pollFetches>>

\* the parked goroutine was woken by r.stopCh and returns
PollWokeReturn ==
    /\ pollPc = "woke_stop"
    /\ PollReturn
    /\ UNCHANGED <<schedVars, sourceVars>>
    /\ UNCHANGED <<rStopCh, rCloseCount, rStopped, stoppedMu, pollFetches>>

\* fetchConfig(true) returns (the http client times out after 10s) and,
\* on success, updateCache stores the result; back to the select
PollFetchDone ==
    /\ pollPc = "fetch"
    /\ pollPc' = "select"
    /\ UNCHANGED <<schedVars, sourceVars>>
    /\ UNCHANGED <<rStopCh, rCloseCount, rStopped, stoppedMu, rWg, rTickPending,
                   pollFetches>>

\* pollConfig's ticker fires: handed to the parked goroutine, else buffered
PollTick ==
    /\ pollPc \in {"select", "blocked", "fetch", "woke_stop"}
    /\ ~rTickPending
    /\ pollFetches < MaxPollTicks
    /\ IF pollPc = "blocked"
       THEN /\ pollPc' = "fetch"
            /\ pollFetches' = pollFetches + 1
            /\ rTickPending' = FALSE
       ELSE /\ rTickPending' = TRUE
            /\ UNCHANGED <<pollPc, pollFetches>>
    /\ UNCHANGED <<schedVars, sourceVars>>
    /\ UNCHANGED <<rStopCh, rCloseCount, rStopped, stoppedMu, rWg>>

(***************************************************************************)
(* The control loop's specification.                                       *)
(***************************************************************************)
LoopStep ==
    \/ PassLoad \/ ScaleOne
    \/ SelectCtx \/ SelectStop \/ SelectTick \/ SelectBlock \/ WokeReturn

StopStep(c) ==
    \/ StopClose(c) \/ OnceSkip(c)
    \/ RStopLock(c) \/ RStopWait(c) \/ StopWait(c)

PollStep ==
    \/ PollBegin \/ PollSelectStop \/ PollSelectTick \/ PollSelectBlock
    \/ PollWokeReturn \/ PollFetchDone

Next ==
    \/ StartBegin \/ Cancel \/ Tick \/ PollTick
    \/ LoopStep
    \/ PollStep
    \/ \E c \in Stoppers : StopCall(c) \/ StopStep(c)

Spec == Init /\ [][Next]_vars

\* New called with any Options.PollInterval, then the same program
InitNew == FnInit /\ \E interval \in IntervalOptions : InitOptions(interval)

NextNew == Next \/ StartPanic

SpecNew == InitNew /\ [][NextNew]_vars

\* Fairness: every goroutine that can run does run, calls to the provider
\* and the client return, and Go's select picks uniformly at random among
\* its ready cases, so a case that is ready again and again is taken.
FairSpec ==
    /\ Spec
    /\ WF_vars(LoopStep)
    /\ SF_vars(SelectCtx)
    /\ SF_vars(SelectStop)
    /\ WF_vars(PollStep)
    /\ SF_vars(PollSelectStop)
    /\ \A c \in Stoppers : WF_vars(StopStep(c))

TypeOK ==
    /\ providerKind \in ProviderKinds
    /\ pollInterval \in {NewPollInterval(i) : i \in IntervalOptions}
    /\ loopPc \in {"idle", "pass", "scaling", "select", "blocked",
                   "woke_ctx", "woke_stop", "returned", "panicked"}
    /\ stopPc \in [Stoppers -> {"idle", "once", "rstop", "rwait",
                                "wait", "returned", "panic"}]
    /\ pollPc \in {"none", "spawned", "select", "blocked", "fetch",
                   "woke_stop", "exited"}
    /\ wg \in 0..1 /\ rWg \in 0..1
    /\ onceState \in {"fresh", "running", "done"}

(***************************************************************************)
(* Claims about the control loop.                                          *)
(***************************************************************************)
StopInProgress(c) == stopPc[c] \in {"once", "rstop", "rwait", "wait"}

\* C1: Scheduler.Stop is idempotent under concurrent callers: the teardown
\* (close of the stop channel, stop of the remote source) runs exactly
\* once, no caller panics, every caller of a running loop returns, and the
\* loop terminates.
C1_StopIdempotent ==
    /\ [](closeCount <= 1 /\ rCloseCount <= 1)
    /\ [](\A c \in Stoppers : stopPc[c] # "panic")
    /\ [](\A c \in Stoppers : stopPc[c] = "returned" => closeCount = 1)
    /\ \A c \in Stoppers :
         [](((stopPc[c] = "once") /\ LoopRunning) => <>(stopPc[c] = "returned"))
    /\ []((stopCh /\ LoopRunning) => <>(loopPc = "returned"))

\* C1 witness: on a running loop one caller has run the teardown while
\* another caller is inside stopOnce.Do at the same time.
C1_Witness ==
    /\ LoopRunning
    /\ closeCount = 1
    /\ \E c, d \in Stoppers :
         /\ c # d
         /\ stopPc[c] \in {"rstop", "rwait", "wait"}
         /\ stopPc[d] = "once"

\* C2 (as claimed): whenever some Stop call has returned, neither the
\* goroutine of Start nor the pollConfig goroutine is running.
C2_StopWaitsForTasks ==
    (\E c \in Stoppers : stopPc[c] = "returned") => (~LoopRunning /\ ~PollRunning)

\* C3: a Stop call made before Start, after the loop has returned, or
\* repeatedly, eventually returns: every Stop call in progress returns.
C3_StopNeverDeadlocks ==
    \A c \in Stoppers : [](StopInProgress(c) => <>(stopPc[c] = "returned"))

\* C3 witness: two Stop calls have returned although Start was never called.
C3_Witness ==
    /\ loopPc = "idle"
    /\ \A c \in Stoppers : stopPc[c] = "returned"

\* C4: Start runs one evaluation pass at once, then one per received tick;
\* after cancellation or a stop request it eventually returns nil, with no
\* pass left unfinished, and it returns for no other reason.
C4_StartLoop ==
    /\ [](loopPc = "pass" => passes = ticksTaken)
    /\ [](loopPc \notin {"idle", "pass"} => passes = ticksTaken + 1)
    /\ [](loopPc = "returned" =>
            /\ startResult = "nil"
            /\ passesDone = passes
            /\ (ctxDone \/ stopCh))
    /\ [](loopPc # "returned" => startResult = "none")
    /\ [](((ctxDone \/ stopCh) /\ LoopRunning) => <>(loopPc = "returned"))

\* C4 witness: Start has returned nil after the immediate pass and one pass
\* for the one tick it received.
C4_Witness ==
    /\ loopPc = "returned"
    /\ startResult = "nil"
    /\ ticksTaken = 1
    /\ passes = 2

\* C5: a pass whose Load fails makes no scaleResource call and does not end
\* the loop: the loop goes back to its select, the next tick it receives
\* starts a new pass (a new Load), and Start returns only on cancellation or
\* stop.
C5_LoadFailureSkipsPass ==
    /\ [][(passes' = passes + 1 /\ passErr' = "load") =>
            /\ loopPc' = "select"
            /\ passesDone' = passesDone + 1
            /\ attempts' = <<>> /\ loaded' = <<>>]_vars
    /\ [][(passErr = "load" /\ ticksTaken' = ticksTaken + 1) => loopPc' = "pass"]_vars
    /\ []((passErr = "load" /\ loopPc = "returned") => (ctxDone \/ stopCh))

\* C5 witness: the initial pass failed in Load, a tick was received and the
\* loop is about to call Load again.
C5_Witness ==
    /\ passErr = "load"
    /\ loopPc = "pass"
    /\ ticksTaken = 1

\* C6: within a pass every resource is attempted whatever happened to the
\* others: the resource loop ends only after its last resource, and
\* checkAndScale then returns nil.
C6_FailureIsolation ==
    /\ [][(loopPc = "scaling" /\ loopPc' # "scaling") =>
            /\ idx = Len(loaded)
            /\ Len(attempts) = Len(loaded) - 1
            /\ loopPc' = "select"
            /\ passErr' = "nil"]_vars
    /\ [](loopPc = "scaling" => (idx \in 1..Len(loaded) /\ Len(attempts) = idx - 1))

\* C6 witness: scaleResource failed for the first resource of a pass and
\* the second one is about to be attempted.
C6_Witness ==
    /\ loopPc = "scaling"
    /\ scaleFailed
    /\ idx = 2
    /\ Len(loaded) = 2

\* C7: the scaleResource calls of a pass follow the order of the list Load
\* returned, and at most one pass is in progress at any time.
C7_OrderedNonOverlapping ==
    /\ loopPc = "scaling" =>
         /\ \A k \in 1..Len(attempts) :
              /\ attempts[k].i = k
              /\ attempts[k].replicas = GetDesiredReplicas(loaded[k], PassNow)
         /\ passes = passesDone + 1
    /\ loopPc # "scaling" => passes = passesDone

\* C7 witness: in the pass following a tick the first of two resources has
\* been attempted.
C7_Witness ==
    /\ loopPc = "scaling"
    /\ passes = 2
    /\ Len(attempts) = 1
    /\ Len(loaded) = 2

\* C8 (as claimed): once Stop's teardown has run on a loop whose source
\* owns a background refresh task, that task has been signalled to halt.
C8_StopSignalsRefresh ==
    (onceState = "done" /\ HasRemote(providerKind)) => rStopCh

(***************************************************************************)
(* CRDProvider operations.                                                 *)
(***************************************************************************)
\* mutant of MapStore: a key already present keeps its value
MapStoreKeepsFirst(cache, key, value) ==
    IF cache[key] = <<>> THEN [cache EXCEPT ![key] = <<value>>] ELSE cache

\* sync.Map.Store(key, value)
MapStore(cache, key, value) == [cache EXCEPT ![key] = <<value>>]

\* mutant of MapDelete: the key is left in the map
MapDeleteNothing(cache, key) == cache

\* sync.Map.Delete(key)
MapDelete(cache, key) == [cache EXCEPT ![key] = NoEntry]

\* the cache's new contents are an instant of the Load in progress, kept while
\* they agree with what its Range has read
NoteInstant(contents) ==
    /\ crdPc = "ranging" => crdRaces < MaxRaceWrites
    /\ crdRaces' = IF crdPc = "ranging" THEN crdRaces + 1 ELSE crdRaces
    /\ crdDirty' = (crdDirty \/ crdPc \in {"ranging", "returned"})
    /\ crdInstants' =
         IF crdPc = "ranging" /\ \A k \in crdVisited : contents[k] = crdReads[k]
         THEN crdInstants \cup {contents}
         ELSE crdInstants

\* func (c *CRDProvider) UpdateResource(resource model.Resource)
Upsert(resource) ==
    LET key == Key(resource.namespace, resource.name) IN
    /\ crdCache' = MapStore(crdCache, key, resource)
    /\ NoteInstant(crdCache')
    /\ crdWritten' = [crdWritten EXCEPT ![key] = <<resource>>]
    /\ crdDeleted' = crdDeleted \ {key}
    /\ crdReplaced' = IF crdCache[key] \notin {NoEntry, <<resource>>}
                      THEN crdReplaced \cup {key}
                      ELSE crdReplaced
    /\ UNCHANGED <<crdPc, crdValidate, crdVisited, crdResult, crdReads>>

\* func (c *CRDProvider) DeleteResource(namespace, name string)
Remove(namespace, name) ==
    LET key == Key(namespace, name) IN
    /\ crdCache' = MapDelete(crdCache, key)
    /\ NoteInstant(crdCache')
    /\ crdWritten' = [crdWritten EXCEPT ![key] = NoEntry]
    /\ crdDeleted' = crdDeleted \cup {key}
    /\ crdReplaced' = crdReplaced \ {key}
    /\ UNCHANGED <<crdPc, crdValidate, crdVisited, crdResult, crdReads>>

\* provider.UpdateResource(resource) called on its own
UpdateResource(resource) ==
    /\ Upsert(resource)
    /\ UNCHANGED <<recCalls, recLast>>
    /\ UNCHANGED <<schedVars, pollVars, srcVars, scaleVars, fnVars, rsVars>>

\* provider.DeleteResource(namespace, name) called on its own
DeleteResource(namespace, name) ==
    /\ Remove(namespace, name)
    /\ UNCHANGED <<recCalls, recLast>>
    /\ UNCHANGED <<schedVars, pollVars, srcVars, scaleVars, fnVars, rsVars>>

\* r.scheduler.ScaleResource(ctx, &resource, desiredReplicas) as Reconcile
\* sees it: the object of the target's kind is brought to the count, or the
\* call fails or finds the count in place and the cluster stays as it is
ReconcileScale(resource, replicas) ==
    LET kind == resource.target.kind IN
    /\ \/ UNCHANGED <<cluster, lastApplied, scWrites>>
       \/ /\ kind \in ClientKinds
          /\ cluster[kind] # NoObject
          /\ ~AlreadyAt(cluster[kind], replicas)
          /\ cluster' = [cluster EXCEPT ![kind] = Object(TRUE, replicas)]
          /\ lastApplied' = [lastApplied EXCEPT ![kind] = replicas]
          /\ scWrites' = scWrites + 1
    /\ UNCHANGED <<scPc, scRes, scReplicas, scNow, scErr, scGets, scUpdates, scCalls>>

\* mutant of ReconcileStores: the translated resource is stored unvalidated
ReconcileStoresAlways(resource) == TRUE

\* if err := resource.Validate(); err != nil { ... return } precedes
\* r.provider.UpdateResource(resource)
ReconcileStores(resource) == IsValid(resource)

\* func (r *ScheduledResourceReconciler) Reconcile(ctx, req): r.Get, then
\* DeleteResource for a not-found object, nothing for another error or an
\* invalid resource, else UpdateResource and the immediate ScaleResource
Reconcile(namespace, name, read) ==
    /\ recCalls < MaxReconciles
    /\ recCalls' = recCalls + 1
    /\ recLast' = [key |-> Key(namespace, name), read |-> read]
    /\ IF read.kind = "notfound"
       THEN Remove(namespace, name) /\ UNCHANGED scaleVars
       ELSE IF read.kind = "found" /\ ReconcileStores(read.object[1])
       THEN /\ Upsert(read.object[1])
            /\ ReconcileScale(read.object[1],
                              GetDesiredReplicas(read.object[1], PassNow))
       ELSE /\ UNCHANGED <<crdCache, crdPc, crdValidate, crdVisited, crdResult,
                           crdDirty, crdRaces, crdReads, crdInstants, crdWritten,
                           crdDeleted, crdReplaced>>
            /\ UNCHANGED scaleVars
    /\ UNCHANGED <<schedVars, pollVars, srcVars, fnVars, rsVars>>

\* Load: var resources []model.Resource; c.cache.Range(...) begins
CRDLoadBegin(validate) ==
    /\ crdPc = "idle"
    /\ crdPc' = "ranging"
    /\ crdValidate' = validate
    /\ crdVisited' = {}
    /\ crdResult' = <<>>
    /\ crdDirty' = FALSE
    /\ crdInstants' = {crdCache}
    /\ UNCHANGED <<crdCache, crdRaces, crdReads, crdWritten, crdDeleted>>
    /\ UNCHANGED <<crdReplaced, recCalls, recLast>>
    /\ UNCHANGED <<schedVars, pollVars, srcVars, scaleVars, fnVars, rsVars>>

\* the value the Range callback returns for a stored resource: false (stop
\* ranging) when validate is set and the resource fails Validate
RangeContinues(validate, resource) == ~(validate /\ ~IsValid(resource))

\* the callback appends the resource unless validation rejected it
RangeAppends(validate, resource) == ~(validate /\ ~IsValid(resource))

\* cache.Range visits one more key, in an order of its own, and reads the
\* value stored at that moment
CRDRangeStep ==
    /\ crdPc = "ranging"
    /\ \E k \in CRDKeys \ crdVisited :
         /\ crdVisited' = crdVisited \cup {k}
         /\ crdReads' = [crdReads EXCEPT ![k] = crdCache[k]]
         /\ crdInstants' = {c \in crdInstants : c[k] = crdCache[k]}
         /\ IF crdCache[k] = NoEntry
            THEN UNCHANGED <<crdResult, crdPc>>
            ELSE /\ crdResult' = IF RangeAppends(crdValidate, crdCache[k][1])
                                 THEN Append(crdResult, crdCache[k][1])
                                 ELSE crdResult
                 /\ crdPc' = IF RangeContinues(crdValidate, crdCache[k][1])
                             THEN "ranging"
                             ELSE "returned"
    /\ UNCHANGED <<crdCache, crdValidate, crdDirty, crdRaces, crdWritten, crdDeleted>>
    /\ UNCHANGED <<crdReplaced, recCalls, recLast>>
    /\ UNCHANGED <<schedVars, pollVars, srcVars, scaleVars, fnVars, rsVars>>

\* every key was visited: Range returns, Load returns resources, nil
CRDRangeEnd ==
    /\ crdPc = "ranging"
    /\ crdVisited = CRDKeys
    /\ crdPc' = "returned"
    /\ UNCHANGED <<crdCache, crdValidate, crdVisited, crdResult, crdDirty,
                   crdRaces, crdReads, crdInstants, crdWritten, crdDeleted,
                   crdReplaced, recCalls, recLast>>
    /\ UNCHANGED <<schedVars, pollVars, srcVars, scaleVars, fnVars, rsVars>>

\* the caller has taken the result
CRDLoadDone ==
    /\ crdPc = "returned"
    /\ crdPc' = "idle"
    /\ crdVisited' = {}
    /\ crdResult' = <<>>
    /\ crdDirty' = FALSE
    /\ crdRaces' = 0
    /\ crdReads' = [k \in CRDKeys |-> NoEntry]
    /\ crdInstants' = {}
    /\ UNCHANGED <<crdCache, crdValidate, crdWritten, crdDeleted>>
    /\ UNCHANGED <<crdReplaced, recCalls, recLast>>
    /\ UNCHANGED <<schedVars, pollVars, srcVars, scaleVars, fnVars, rsVars>>

NextCRD ==
    \/ \E r \in CRDResources : UpdateResource(r)
    \/ \E r \in CRDResources : DeleteResource(r.namespace, r.name)
    \/ \E r \in CRDResources :
         \E read \in Reads(Key(r.namespace, r.name)) :
            Reconcile(r.namespace, r.name, read)
    \/ \E v \in BOOLEAN : CRDLoadBegin(v)
    \/ CRDRangeStep
    \/ CRDRangeEnd
    \/ CRDLoadDone

\* a CRDProvider on its own; the control loop is not started
InitCRD == Init /\ providerKind = "local"

SpecCRD == InitCRD /\ [][NextCRD]_vars

\* the stored resources that pass Resource.Validate
CRDValidStored ==
    {crdCache[k][1] : k \in {j \in CRDKeys : crdCache[j] # NoEntry /\ IsValid(crdCache[j][1])}}

\* C9 (as claimed): a Load(true) that ran with no concurrent write returns
\* exactly the stored resources that pass Validate, each once.
C9_LoadReturnsAllValid ==
    (crdPc = "returned" /\ crdValidate /\ ~crdDirty) =>
        /\ Range(crdResult) = CRDValidStored
        /\ Len(crdResult) = Cardinality(CRDValidStored)

(***************************************************************************)
(* LocalProvider, RemoteProvider, MultiProvider: Load.                     *)
(***************************************************************************)
Vias == {"local", "remote", "multi"}

\* r.stoppedMu.Unlock() has been executed
RemoteStopReturned == rStopped /\ stoppedMu = 0

\* the caller gets its result and the goroutine is free to call again
Return(l, result) ==
    /\ loadResult' = [loadResult EXCEPT ![l] = result]
    /\ loadPartial' = [loadPartial EXCEPT ![l] = <<>>]
    /\ loadPc' = [loadPc EXCEPT ![l] = "done"]

\* fmt.Errorf("failed to load from provider: %w", err) / append(allResources, ...)
\* mutant of MultiCombine: a failing provider is skipped and the rest is kept
MultiCombineSkipsFailed(via, partial, out) ==
    IF via # "multi" THEN out
    ELSE IF out.err # "nil" THEN Loaded(partial)
    ELSE Loaded(partial \o out.resources)

MultiCombine(via, partial, out) ==
    IF via # "multi" THEN out
    ELSE IF out.err # "nil" THEN Failed("failed to load from provider: " \o out.err)
    ELSE Loaded(partial \o out.resources)

\* provider.Load(validate) on one provider, by the caller or by MultiProvider,
\* has returned out
Called(l, provider, out) ==
    loadCalls' = [loadCalls EXCEPT ![l] =
                    Append(@, [provider |-> provider,
                               validate |-> loadArg[l].validate, out |-> out])]

\* RemoteProvider.Load returns out, to the caller or to MultiProvider.Load
RemoteReturn(l, out) ==
    /\ Called(l, "remote", out)
    /\ Return(l, MultiCombine(loadArg[l].via, loadPartial[l], out))

\* a caller invokes Load(validate) on a provider
LoadCall(l, via, validate) ==
    /\ loadPc[l] = "idle"
    /\ loadArg' = [loadArg EXCEPT ![l] = [via |-> via, validate |-> validate,
                                         afterStop |-> RemoteStopReturned]]
    /\ loadPc' = [loadPc EXCEPT ![l] = IF via = "remote" THEN "fast" ELSE "local"]
    /\ UNCHANGED <<srcNow, srcCache, cacheMu, loadPartial, loadResult,
                   loadPath, loadCalls, srcPollPc, srcPollFetched,
                   srcPollOvertaken>>
    /\ UNCHANGED <<schedVars, pollVars, crdVars, scaleVars, fnVars, rsVars>>

\* LocalProvider.Load, called directly or as providers[0] of a MultiProvider
SrcLocalLoad(l) ==
    /\ loadPc[l] = "local"
    /\ \E file \in LocalFiles :
        LET out == LocalLoad(file, loadArg[l].validate) IN
        /\ Called(l, "local", out)
        /\ IF loadArg[l].via = "local" THEN Return(l, out)
           ELSE IF out.err # "nil"
           THEN Return(l, MultiCombine("multi", loadPartial[l], out))
           ELSE /\ loadPartial' = [loadPartial EXCEPT ![l] =
                                     MultiCombine("multi", @, out).resources]
                /\ loadPc' = [loadPc EXCEPT ![l] = "fast"]
                /\ UNCHANGED loadResult
    /\ UNCHANGED <<srcNow, srcCache, cacheMu, loadArg, loadPath,
                   srcPollPc, srcPollFetched,
                   srcPollOvertaken>>
    /\ UNCHANGED <<schedVars, pollVars, crdVars, scaleVars, fnVars, rsVars>>

\* RemoteProvider.Load: the read-locked look at the cache
RLoadFast(l) ==
    /\ loadPc[l] = "fast"
    /\ cacheMu = 0
    /\ IF CacheFresh(srcCache, srcNow)
       THEN /\ RemoteReturn(l, Loaded(srcCache[1].resources))
            /\ loadPath' = [loadPath EXCEPT ![l] = "hit"]
       ELSE /\ loadPc' = [loadPc EXCEPT ![l] = "lock"]
            /\ UNCHANGED <<loadPartial, loadResult, loadPath, loadCalls>>
    /\ UNCHANGED <<srcNow, srcCache, cacheMu, loadArg, srcPollPc, srcPollFetched,
                   srcPollOvertaken>>
    /\ UNCHANGED <<schedVars, pollVars, crdVars, scaleVars, fnVars, rsVars>>

\* mutant of DoubleCheck: the cache is not looked at again under the lock
DoubleCheckOmitted(cache, now) == FALSE

\* r.cache != nil && time.Since(r.cache.fetchedAt) < r.config.PollInterval
DoubleCheck(cache, now) == CacheFresh(cache, now)

\* RemoteProvider.Load: r.cacheMu.Lock() and the double-check under it
RLoadLock(l) ==
    /\ loadPc[l] = "lock"
    /\ cacheMu = 0
    /\ IF DoubleCheck(srcCache, srcNow)
       THEN /\ RemoteReturn(l, Loaded(srcCache[1].resources))
            /\ loadPath' = [loadPath EXCEPT ![l] = "recheck"]
            /\ UNCHANGED cacheMu
       ELSE /\ cacheMu' = l
            /\ loadPc' = [loadPc EXCEPT ![l] = "fetch"]
            /\ UNCHANGED <<loadPartial, loadResult, loadPath, loadCalls>>
    /\ UNCHANGED <<srcNow, srcCache, loadArg, srcPollPc, srcPollFetched,
                   srcPollOvertaken>>
    /\ UNCHANGED <<schedVars, pollVars, crdVars, scaleVars, fnVars, rsVars>>

\* mutant of StaleFallback: the fetch error is returned whatever the cache holds
StaleFallbackNever(cache, out) == out

\* on a fetch error the cached resources, if any, are returned as they are
StaleFallback(cache, out) ==
    IF cache # NoCache THEN Loaded(cache[1].resources) ELSE out

\* RemoteProvider.Load: fetchConfig(validate) under the write lock, then the
\* stale fallback or the store, and the deferred Unlock
RLoadFetch(l) ==
    /\ loadPc[l] = "fetch"
    /\ cacheMu = l
    /\ \E resp \in Responses :
        LET out == FetchConfig(resp, loadArg[l].validate) IN
        IF out.err # "nil"
        THEN /\ RemoteReturn(l, StaleFallback(srcCache, out))
             /\ loadPath' = [loadPath EXCEPT ![l] =
                                IF srcCache # NoCache THEN "fallback" ELSE "error"]
             /\ UNCHANGED srcCache
        ELSE /\ srcCache' = NewSnapshot(out.resources, srcNow)
             /\ loadPath' = [loadPath EXCEPT ![l] = "fetched"]
             /\ RemoteReturn(l, out)
    /\ cacheMu' = 0
    /\ srcPollOvertaken' = (srcPollOvertaken \/
                               (srcPollPc = "update" /\ loadPath'[l] = "fetched"))
    /\ UNCHANGED <<srcNow, loadArg, srcPollPc, srcPollFetched>>
    /\ UNCHANGED <<schedVars, pollVars, crdVars, scaleVars, fnVars, rsVars>>

\* the caller has consumed the result
LoadDone(l) ==
    /\ loadPc[l] = "done"
    /\ loadPc' = [loadPc EXCEPT ![l] = "idle"]
    /\ loadResult' = [loadResult EXCEPT ![l] = NilResult]
    /\ loadPath' = [loadPath EXCEPT ![l] = "none"]
    /\ loadCalls' = [loadCalls EXCEPT ![l] = <<>>]
    /\ loadArg' = [loadArg EXCEPT ![l] = NoLoadArg]
    /\ UNCHANGED <<srcNow, srcCache, cacheMu, loadPartial,
                   srcPollPc, srcPollFetched,
                   srcPollOvertaken>>
    /\ UNCHANGED <<schedVars, pollVars, crdVars, scaleVars, fnVars, rsVars>>

\* pollConfig: case <-ticker.C
SrcPollTick ==
    /\ srcPollPc = "wait"
    /\ srcPollPc' = "fetch"
    /\ UNCHANGED <<srcNow, srcCache, cacheMu, loadPc, loadArg, loadPartial,
                   loadResult, loadPath, loadCalls, srcPollFetched,
                   srcPollOvertaken>>
    /\ UNCHANGED <<schedVars, pollVars, crdVars, scaleVars, fnVars, rsVars>>

\* pollConfig: resources, err := r.fetchConfig(true); an error is only logged
SrcPollFetch ==
    /\ srcPollPc = "fetch"
    /\ \E resp \in Responses :
        LET out == FetchConfig(resp, TRUE) IN
        IF out.err # "nil"
        THEN srcPollPc' = "wait" /\ UNCHANGED srcPollFetched
        ELSE srcPollPc' = "update" /\ srcPollFetched' = out.resources
    /\ srcPollOvertaken' = FALSE
    /\ UNCHANGED <<srcNow, srcCache, cacheMu, loadPc, loadArg, loadPartial,
                   loadResult, loadPath, loadCalls>>
    /\ UNCHANGED <<schedVars, pollVars, crdVars, scaleVars, fnVars, rsVars>>

\* func (r *RemoteProvider) updateCache(resources []model.Resource)
SrcUpdateCache ==
    /\ srcPollPc = "update"
    /\ cacheMu = 0
    /\ srcCache' = NewSnapshot(srcPollFetched, srcNow)
    /\ srcPollFetched' = <<>>
    /\ srcPollOvertaken' = FALSE
    /\ srcPollPc' = "wait"
    /\ UNCHANGED <<srcNow, cacheMu, loadPc, loadArg, loadPartial, loadResult,
                   loadPath, loadCalls>>
    /\ UNCHANGED <<schedVars, pollVars, crdVars, scaleVars, fnVars, rsVars>>

\* time passes
Advance ==
    /\ srcNow < MaxTime
    /\ srcNow' = srcNow + 1
    /\ UNCHANGED <<srcCache, cacheMu, loadPc, loadArg, loadPartial, loadResult,
                   loadPath, loadCalls, srcPollPc, srcPollFetched,
                   srcPollOvertaken>>
    /\ UNCHANGED <<schedVars, pollVars, crdVars, scaleVars, fnVars, rsVars>>

NextSrc ==
    \/ \E l \in Loaders, via \in Vias, validate \in BOOLEAN : LoadCall(l, via, validate)
    \/ \E l \in Loaders : SrcLocalLoad(l)
    \/ \E l \in Loaders : RLoadFast(l)
    \/ \E l \in Loaders : RLoadLock(l)
    \/ \E l \in Loaders : RLoadFetch(l)
    \/ \E l \in Loaders : LoadDone(l)
    \/ SrcPollTick
    \/ SrcPollFetch
    \/ SrcUpdateCache
    \/ Advance

InitSrc == Init /\ providerKind = "multi"
SpecSrc == InitSrc /\ [][NextSrc]_vars

AllValid(rs) == FirstInvalidResource(rs, 1) = 0

\* C10 (as claimed): whatever Load(true)/Load(false) calls and background
\* refreshes came before, a Load(true) of any source variant that returns
\* without error returns only resources that pass Validate, and a LocalProvider
\* read or RemoteProvider fetch holding an invalid resource fails as a whole
\* with no partial result.
C10_ValidatedLoadReturnsValid ==
    /\ \A l \in Loaders :
        (loadPc[l] = "done" /\ loadArg[l].validate /\ loadResult[l].err = "nil")
            => AllValid(loadResult[l].resources)
    /\ (crdPc = "returned" /\ crdValidate) => AllValid(crdResult)
    /\ \A file \in LocalFiles :
        (file.state = "ok" /\ ~AllValid(file.doc))
            => LocalLoad(file, TRUE) = Failed("resource validation failed")
    /\ \A resp \in Responses :
        (resp.status = 200 /\ resp.wellFormed /\ ~AllValid(resp.doc))
            => FetchConfig(resp, TRUE) = Failed("resource validation failed")

\* the snapshot exists and its age is less than the poll interval
SnapshotYoung == srcCache # NoCache /\ srcNow - srcCache[1].fetchedAt < PollInterval

\* C11: when RemoteProvider.Load looks at a snapshot whose age is less than the
\* poll interval, the call returns that snapshot's resources without error and
\* issues no fetch, and the snapshot stays as it is; so of two calls made
\* within the interval of a successful fetch at most the first fetches.
C11_CacheHitFastPath ==
    [][\A l \in Loaders :
        (loadPc[l] = "fast" /\ loadPc'[l] # "fast" /\ SnapshotYoung) =>
            /\ loadPc'[l] = "done"
            /\ loadPath'[l] = "hit"
            /\ loadResult'[l] = Loaded(loadPartial[l] \o srcCache[1].resources)
            /\ srcCache' = srcCache]_vars

\* a call that fetched and stored, and another that then returned the stored
\* snapshot from the fast path
C11_Witness ==
    \E l, m \in Loaders :
        /\ loadPc[l] = "done" /\ loadArg[l].via = "remote" /\ loadPath[l] = "hit"
        /\ loadPc[m] = "done" /\ loadArg[m].via = "remote" /\ loadPath[m] = "fetched"
        /\ loadResult[l].resources = <<ResDeployment>>
        /\ loadResult[m] = loadResult[l]

\* C12: when RemoteProvider.Load attempts a fetch and the fetch fails, the
\* call returns the previous snapshot's resources without error if a snapshot
\* exists, however old, and the fetch error with no resources when none was
\* ever stored; the snapshot is left as it is.
C12_StaleOnError ==
    [][\A l \in Loaders :
        (/\ loadPc[l] = "fetch" /\ loadPc'[l] = "done"
         /\ loadArg[l].via = "remote"
         /\ loadPath'[l] \in {"fallback", "error"}) =>
            /\ srcCache' = srcCache
            /\ IF srcCache # NoCache
               THEN loadResult'[l] = Loaded(srcCache[1].resources)
               ELSE /\ loadResult'[l].err \notin {"nil", "none"}
                    /\ loadResult'[l].resources = <<>>]_vars

\* one call failed with nothing stored and got the error; another failed
\* with a snapshot at least one interval old and got its resources
C12_Witness ==
    \E l, m \in Loaders :
        /\ loadPc[l] = "done" /\ loadArg[l].via = "remote" /\ loadPath[l] = "error"
        /\ loadResult[l].err = "unexpected status code 503"
        /\ loadPc[m] = "done" /\ loadArg[m].via = "remote" /\ loadPath[m] = "fallback"
        /\ srcCache # NoCache
        /\ srcNow - srcCache[1].fetchedAt >= PollInterval
        /\ loadResult[m] = Loaded(<<ResDeployment>>)

\* C13: a RemoteProvider.Load caller that passed the fast-path check on a
\* missing or stale snapshot and gets the exclusive lock after another
\* caller's fetch stored a snapshot (still younger than the poll interval)
\* returns that snapshot without a fetch of its own; and at most one caller
\* is fetching at any time.
C13_NoDuplicateFetch ==
    [][/\ \A l \in Loaders :
            (loadPc[l] = "lock" /\ loadPc'[l] # "lock" /\ SnapshotYoung) =>
                /\ loadPc'[l] = "done"
                /\ loadPath'[l] = "recheck"
                /\ loadResult'[l] = Loaded(loadPartial[l] \o srcCache[1].resources)
                /\ srcCache' = srcCache
       /\ \A l, m \in Loaders :
            (loadPc'[l] = "fetch" /\ loadPc'[m] = "fetch") => l = m]_vars

\* two callers raced past the fast path before anything was stored and the
\* background loop stored nothing: one fetched, the other returned the
\* fetched snapshot from the re-check under the lock
C13_Witness ==
    \E l, m \in Loaders :
        /\ loadPc[l] = "done" /\ loadArg[l].via = "remote" /\ loadPath[l] = "fetched"
        /\ loadPc[m] = "done" /\ loadArg[m].via = "remote" /\ loadPath[m] = "recheck"
        /\ srcCache = NewSnapshot(<<ResDeployment>>, 0)
        /\ srcPollPc = "wait"
        /\ loadResult[l] = Loaded(<<ResDeployment>>)
        /\ loadResult[m] = loadResult[l]

\* the resources a cache content holds
Contents(cache) == {cache[k][1] : k \in {j \in CRDKeys : cache[j] # NoEntry}}

\* C14 (as claimed, for Load(false)): whatever UpdateResource/DeleteResource
\* calls run during a CRDProvider.Load, the returned resources are the cache's
\* contents at one single instant between the call's start and its return.
C14_LoadIsSnapshot ==
    (crdPc = "returned" /\ ~crdValidate) =>
        \E c \in crdInstants : Range(crdResult) = Contents(c)

\* the identity a resource is stored under
KeyOf(resource) == Key(resource.namespace, resource.name)

\* C15: a CRDProvider.Load that ran with no concurrent write returns, for
\* every identity last written by UpdateResource(R), exactly R under that
\* identity when validate is false, and no resource of an identity that was
\* never upserted or was last removed by DeleteResource; writes to one
\* identity leave the others as they were.
C15_UpsertRemoveLoad ==
    (crdPc = "returned" /\ ~crdDirty) =>
        \A k \in CRDKeys :
            LET got == {i \in 1..Len(crdResult) : KeyOf(crdResult[i]) = k} IN
            IF crdWritten[k] = NoEntry
            THEN got = {}
            ELSE crdValidate \/
                 (Cardinality(got) = 1 /\ \A i \in got : crdResult[i] = crdWritten[k][1])

\* one identity was upserted and then removed, another upserted and kept, and
\* a quiet Load(false) returned the kept one alone
C15_Witness ==
    /\ crdPc = "returned" /\ ~crdValidate /\ ~crdDirty
    /\ crdDeleted = {"default/web"}
    /\ crdWritten["default/db"] # NoEntry
    /\ Len(crdResult) = 1
    /\ crdResult[1] = crdWritten["default/db"][1]

\* the providers of the MultiProvider, in the order main appends them
MultiOrder == <<"local", "remote">>

\* C16: a returned MultiProvider.Load has called its providers in their
\* configured order, each with the caller's validate flag; every call but the
\* last succeeded; if the last call failed the result is an error wrapping
\* that provider's error with no resources and no later provider was called;
\* otherwise all providers were called and the result is the concatenation
\* of their results in that order.
C16_MultiInOrderFailFast ==
    \A l \in Loaders :
        (loadPc[l] = "done" /\ loadArg[l].via = "multi") =>
            LET calls == loadCalls[l]
                n == Len(calls)
            IN  /\ n \in 1..Len(MultiOrder)
                /\ \A i \in 1..n :
                    /\ calls[i].provider = MultiOrder[i]
                    /\ calls[i].validate = loadArg[l].validate
                    /\ i < n => calls[i].out.err = "nil"
                /\ IF calls[n].out.err # "nil"
                   THEN loadResult[l] =
                          Failed("failed to load from provider: " \o calls[n].out.err)
                   ELSE /\ n = Len(MultiOrder)
                        /\ loadResult[l] =
                             Loaded(calls[1].out.resources \o calls[2].out.resources)

\* one MultiProvider.Load returned the local resources followed by the remote
\* ones; another failed at the first provider and never called the second
C16_Witness ==
    \E l, m \in Loaders :
        /\ loadPc[l] = "done" /\ loadArg[l].via = "multi"
        /\ Len(loadCalls[l]) = 2
        /\ loadCalls[l][1].out.resources = <<ResInvalid>>
        /\ loadCalls[l][2].out.resources = <<ResDeployment>>
        /\ loadResult[l] = Loaded(<<ResInvalid, ResDeployment>>)
        /\ loadPc[m] = "done" /\ loadArg[m].via = "multi"
        /\ Len(loadCalls[m]) = 1
        /\ loadResult[m] = Failed("failed to load from provider: failed to parse config")

\* C17 (as claimed): no RemoteProvider.Load call holds the snapshot lock
\* while its remote fetch is in flight, so updateCache never waits for the
\* duration of another caller's fetch.
C17_NoLockAcrossFetch ==
    \A l \in Loaders : loadPc[l] = "fetch" => cacheMu = 0

\* RemoteProvider.Stop has run to its end: r.stopped is set and the deferred

\* C18 (as claimed): once RemoteProvider.Stop has returned, the pollConfig
\* goroutine begins no further fetch, whatever the interleaving of
\* NewRemoteProvider, the goroutine's start, its ticks and Stop.
C18_NoFetchAfterStop ==
    [][RemoteStopReturned => pollFetches' = pollFetches]_vars

\* C19: the RemoteProvider snapshot changes only in a step that stores the
\* result of a successful fetch, resources and fetchedAt (the time of the
\* store) together: the on-demand fetch of a Load, which returns exactly the
\* resources it stored, or the background loop's updateCache of what its
\* fetchConfig(true) returned. A failed fetch, on-demand or in the background
\* loop, leaves resources and fetchedAt as they were.
C19_SnapshotOnlyBySuccessfulFetch ==
    [][/\ srcCache' # srcCache =>
            /\ Len(srcCache') = 1
            /\ srcCache'[1].fetchedAt = srcNow
            /\ \/ \E l \in Loaders :
                    /\ loadPc[l] = "fetch" /\ loadPath'[l] = "fetched"
                    /\ loadCalls'[l][Len(loadCalls'[l])].out
                         = Loaded(srcCache'[1].resources)
               \/ /\ srcPollPc = "update" /\ srcPollPc' = "wait"
                  /\ srcCache'[1].resources = srcPollFetched
                  /\ AllValid(srcPollFetched)
       /\ \A l \in Loaders :
            (loadPc[l] = "fetch" /\ loadPath'[l] \in {"fallback", "error"})
                => srcCache' = srcCache
       /\ (srcPollPc = "fetch" /\ srcPollPc' = "wait") => srcCache' = srcCache
       /\ \A l \in Loaders :
            (loadPc[l] = "fetch" /\ loadPath'[l] = "fetched" /\ loadArg[l].via = "remote")
                => loadResult'[l] = Loaded(srcCache'[1].resources)]_vars

\* a Load whose fetch failed left the snapshot for a later Load, whose fetch
\* succeeded at a later time and which returned what it stored
C19_Witness ==
    \E l, m \in Loaders :
        /\ loadPc[l] = "done" /\ loadArg[l].via = "remote" /\ loadPath[l] = "fallback"
        /\ loadResult[l] = Loaded(<<ResDeployment>>)
        /\ loadPc[m] = "done" /\ loadArg[m].via = "remote" /\ loadPath[m] = "fetched"
        /\ loadResult[m] = Loaded(<<ResDeployment, ResInvalid>>)
        /\ srcCache = NewSnapshot(<<ResDeployment, ResInvalid>>, srcNow)
        /\ srcNow > 0

(***************************************************************************)
(* scaleResource, scaleDeployment, scaleStatefulSet.                       *)
(***************************************************************************)
KindName(kind) == IF kind = "Deployment" THEN "deployment" ELSE "statefulset"

ScaleReturn(err) ==
    /\ scErr' = err
    /\ scPc' = "returned"

\* scaleResource(ctx, res, replicas): the switch on res.Target.Kind
ScaleDispatch(res, replicas) ==
    /\ scPc = "idle"
    /\ scCalls < MaxScaleCalls
    /\ scCalls' = scCalls + 1
    /\ scRes' = res
    /\ scReplicas' = replicas
    /\ IF res.target.kind \in ClientKinds
       THEN scPc' = "get" /\ UNCHANGED scErr
       ELSE ScaleReturn("unsupported resource kind: " \o res.target.kind)
    /\ UNCHANGED <<cluster, scWrites, scGets, scUpdates, lastApplied>>
    /\ UNCHANGED <<schedVars, pollVars, crdVars, srcVars, fnVars, rsVars>>

\* scaleResource called on its own, with any count
ScaleResource(res, replicas) ==
    /\ ScaleDispatch(res, replicas)
    /\ scNow' = NoPass

\* mutant of PassReplicas: the pass always asks for the base count
PassReplicasOriginal(res, now) == res.originalReplicas

\* desiredReplicas := res.GetDesiredReplicas(now)
PassReplicas(res, now) == GetDesiredReplicas(res, now)

\* checkAndScale's loop body for one resource: the desired count at the
\* pass's now, handed to scaleResource
ScaleCheck(res, now) ==
    /\ ScaleDispatch(res, PassReplicas(res, now))
    /\ scNow' = now

\* client Get, which fails when the object is missing and may fail
\* otherwise, then the comparison with the requested count
ScaleGet ==
    /\ scPc = "get"
    /\ scGets' = scGets + 1
    /\ LET obj == cluster[scRes.target.kind] IN
       \/ ScaleReturn("failed to get " \o KindName(scRes.target.kind))
       \/ /\ obj # NoObject
          /\ IF AlreadyAt(obj, scReplicas)
             THEN ScaleReturn("nil")
             ELSE scPc' = "update" /\ UNCHANGED scErr
    /\ UNCHANGED <<cluster, scRes, scReplicas, scNow, scWrites, scUpdates, scCalls,
                   lastApplied>>
    /\ UNCHANGED <<schedVars, pollVars, crdVars, srcVars, fnVars, rsVars>>

\* client Update of the copy with Spec.Replicas = &replicas, which fails when
\* the object is gone and may fail otherwise
ScaleUpdate ==
    /\ scPc = "update"
    /\ scUpdates' = scUpdates + 1
    /\ LET kind == scRes.target.kind IN
       \/ /\ ScaleReturn("failed to update " \o KindName(kind))
          /\ UNCHANGED <<cluster, lastApplied, scWrites>>
       \/ /\ cluster[kind] # NoObject
          /\ scWrites' = scWrites + 1
          /\ cluster' = [cluster EXCEPT ![kind] = Object(TRUE, scReplicas)]
          /\ lastApplied' = [lastApplied EXCEPT ![kind] = scReplicas]
          /\ ScaleReturn("nil")
    /\ UNCHANGED <<scRes, scReplicas, scNow, scGets, scCalls>>
    /\ UNCHANGED <<schedVars, pollVars, crdVars, srcVars, fnVars, rsVars>>

\* checkAndScale logs the outcome and goes on
ScaleDone ==
    /\ scPc = "returned"
    /\ scPc' = "idle"
    /\ scErr' = "none"
    /\ scGets' = 0
    /\ scUpdates' = 0
    /\ scRes' = ResDeployment
    /\ scReplicas' = 0
    /\ scNow' = NoPass
    /\ UNCHANGED <<cluster, scWrites, scCalls, lastApplied>>
    /\ UNCHANGED <<schedVars, pollVars, crdVars, srcVars, fnVars, rsVars>>

\* someone else creates, deletes or rescales the object
ExternalWrite(kind, obj) ==
    /\ cluster[kind] # obj
    /\ cluster' = [cluster EXCEPT ![kind] = obj]
    /\ lastApplied' = [lastApplied EXCEPT ![kind] = NotApplied]
    /\ UNCHANGED <<scPc, scRes, scReplicas, scNow, scWrites, scErr, scGets,
                   scUpdates, scCalls>>
    /\ UNCHANGED <<schedVars, pollVars, crdVars, srcVars, fnVars, rsVars>>

NextScale ==
    \/ \E res \in SchedulerResources, n \in 0..MaxReplicas : ScaleResource(res, n)
    \/ \E res \in SchedulerResources : ScaleCheck(res, PassNow)
    \/ ScaleGet
    \/ ScaleUpdate
    \/ ScaleDone
    \/ \E kind \in ClientKinds, obj \in Objects : ExternalWrite(kind, obj)

InitScale == Init /\ providerKind = "local"
SpecScale == InitScale /\ [][NextScale]_vars

\* C20: when the client's Get returns a Deployment or StatefulSet whose
\* replica count is already the requested one, scaleResource returns nil
\* and makes no Update call, and the object is not written; a count applied
\* by a successful call is the object's count until someone else writes it,
\* so asking for the same count again makes no second Update.
C20_ScalerIdempotent ==
    [][/\ (/\ scPc = "get"
           /\ cluster[scRes.target.kind] # NoObject
           /\ cluster[scRes.target.kind][1].set
           /\ cluster[scRes.target.kind][1].replicas = scReplicas
           /\ scPc' # "get") =>
              /\ scPc' = "returned"
              /\ scErr' \in {"nil", "failed to get " \o KindName(scRes.target.kind)}
              /\ scUpdates' = 0
              /\ cluster' = cluster
       /\ \A kind \in ClientKinds :
            lastApplied'[kind] # NotApplied =>
                cluster'[kind] = Object(TRUE, lastApplied'[kind])]_vars

\* a second scaleResource for the count the first one applied returned nil
\* after its Get, with no Update
C20_Witness ==
    /\ scCalls = 2
    /\ scPc = "returned" /\ scErr = "nil"
    /\ scRes = ResStatefulSet /\ scReplicas = 2
    /\ lastApplied["StatefulSet"] = 2
    /\ scGets = 1 /\ scUpdates = 0

\* C21: a scaleResource call made by an evaluation pass that returns nil
\* leaves its target at GetDesiredReplicas(resource, now) of that pass, with
\* at most one Update, and writes the object only through that Update; when
\* the target already is at that count since the previous successful call,
\* the call makes no Update (from 2 replicas with an active window of 5: one
\* Update to 5, then none).
C21_PassReachesDesired ==
    [][/\ (scPc # "returned" /\ scPc' = "returned" /\ scErr' = "nil" /\ scNow' # NoPass) =>
            /\ cluster'[scRes'.target.kind]
                 = Object(TRUE, GetDesiredReplicas(scRes', scNow'))
            /\ scUpdates' <= 1
            /\ cluster' # cluster => (scUpdates' = 1 /\ scWrites' = scWrites + 1)
       /\ (/\ scPc = "get" /\ scPc' # "get" /\ scNow # NoPass
           /\ lastApplied[scRes.target.kind] = GetDesiredReplicas(scRes, scNow)) =>
            /\ scPc' = "returned"
            /\ scUpdates' = 0
            /\ scWrites' = scWrites
            /\ cluster' = cluster]_vars

\* the second pass over the resource with the active window of 5 returned
\* nil without an Update, the first having made the one Update to 5
C21_Witness ==
    /\ scCalls = 2 /\ scWrites = 1
    /\ scPc = "returned" /\ scErr = "nil"
    /\ scRes = ResDeployment /\ scNow = PassNow
    /\ GetDesiredReplicas(ResDeployment, PassNow) = 5
    /\ cluster["Deployment"] = Object(TRUE, 5)
    /\ lastApplied["Deployment"] = 5
    /\ scGets = 1 /\ scUpdates = 0

\* C22: a returned scaleResource on a target whose kind is neither
\* "Deployment" nor "StatefulSet" returned the unsupported-kind error and made
\* no Get and no Update; for the kinds Deployment and StatefulSet the client
\* was called (one Get).
C22_UnsupportedKind ==
    scPc = "returned" =>
        IF scRes.target.kind \in {"Deployment", "StatefulSet"}
        THEN scGets = 1
        ELSE /\ scErr = "unsupported resource kind: " \o scRes.target.kind
             /\ scGets = 0 /\ scUpdates = 0

\* a call for a CronJob target returned the error without a client call,
\* after a call for a StatefulSet had updated the cluster
C22_Witness ==
    /\ scPc = "returned"
    /\ scRes = ResCronJob
    /\ scErr = "unsupported resource kind: CronJob"
    /\ scGets = 0 /\ scUpdates = 0
    /\ scWrites = 1 /\ lastApplied["StatefulSet"] # NotApplied

\* C23: Start never panics, whatever Options.PollInterval New was given: the
\* interval handed to time.NewTicker is positive, so the goroutine running
\* Start is never brought down by a panic.
C23_StartNeverPanics ==
    /\ loopPc # "panicked"
    /\ (LoopRunning => pollInterval > 0)

(***************************************************************************)
(* One call of a function of pkg/model, of LocalProvider.Load's decoding   *)
(* or of fetchConfig's, applied to the receiver and arguments drawn in     *)
(* InitFn.                                                                 *)
(***************************************************************************)
Returns(value) ==
    /\ fnPc = "ready"
    /\ fnOut' = value
    /\ fnPc' = "done"
    /\ UNCHANGED fnIn
    /\ UNCHANGED <<schedVars, pollVars, crdVars, srcVars, scaleVars, rsVars>>

\* w.IsActive(now)
ApplyIsActive ==
    /\ fnIn.op = "IsActive"
    /\ Returns(IsActive(fnIn.w, fnIn.now))

\* w.Validate()
ApplyWindowValidate ==
    /\ fnIn.op = "WindowValidate"
    /\ Returns(WindowValidate(fnIn.w))

\* r.GetDesiredReplicas(now)
ApplyGetDesiredReplicas ==
    /\ fnIn.op = "GetDesiredReplicas"
    /\ Returns(GetDesiredReplicas(fnIn.res, fnIn.now))

\* r.Validate()
ApplyValidate ==
    /\ fnIn.op = "Validate"
    /\ Returns(ResourceValidate(fnIn.res))

\* l.Load(validate) on the file found at l.path
ApplyLocalLoad ==
    /\ fnIn.op = "LocalLoad"
    /\ Returns(LocalLoad(fnIn.file, fnIn.validate))

\* r.fetchConfig(validate) on the response httpClient.Do returned
ApplyFetchConfig ==
    /\ fnIn.op = "FetchConfig"
    /\ Returns(FetchConfig(fnIn.resp, fnIn.validate))

\* fetchConfig's choice between yaml.Unmarshal and json.Unmarshal
ApplyDecoder ==
    /\ fnIn.op = "Decoder"
    /\ Returns(Decoder(fnIn.contentType, fnIn.url))

\* NewRemoteProvider(config)
ApplyNewRemoteProvider ==
    /\ fnIn.op = "NewRemoteProvider"
    /\ Returns(NewRemoteProvider(fnIn.url, fnIn.interval))

NextFn ==
    \/ ApplyIsActive \/ ApplyWindowValidate \/ ApplyGetDesiredReplicas
    \/ ApplyValidate \/ ApplyLocalLoad \/ ApplyFetchConfig
    \/ ApplyDecoder \/ ApplyNewRemoteProvider

InitFn ==
    /\ InitOptions(0)
    /\ providerKind = "local"
    /\ \/ fnIn \in IsActiveCalls
       \/ fnIn \in WindowValidateCalls
       \/ fnIn \in GetDesiredReplicasCalls
       \/ fnIn \in ValidateCalls
       \/ fnIn \in ValidateWindowsCalls
       \/ fnIn \in LocalLoadCalls
       \/ fnIn \in FetchConfigCalls
       \/ fnIn \in DecoderCalls
       \/ fnIn \in NewRemoteProviderCalls
    /\ fnOut = "none"
    /\ fnPc = "ready"

SpecFn == InitFn /\ [][NextFn]_vars

Returned(op) == fnPc = "done" /\ fnIn.op = op

\* C24: IsActive(now) returns true exactly when startTime <= now < endTime;
\* for a resource with exactly one window w covering now,
\* GetDesiredReplicas(now) returns w.Replicas; a resource whose only window
\* ends at now gets its originalReplicas.
C24_ActiveHalfOpen ==
    /\ Returned("IsActive") =>
         fnOut = (fnIn.w.startTime <= fnIn.now /\ fnIn.now < fnIn.w.endTime)
    /\ Returned("GetDesiredReplicas") =>
         LET ws == fnIn.res.windows
             covering == {i \in 1..Len(ws) :
                             ws[i].startTime <= fnIn.now /\ fnIn.now < ws[i].endTime}
         IN  /\ \A i \in covering : covering = {i} => fnOut = ws[i].replicas
             /\ (Len(ws) = 1 /\ ws[1].endTime = fnIn.now) =>
                    fnOut = fnIn.res.originalReplicas

\* GetDesiredReplicas returned the original count for a resource whose one
\* window, with another count, started before now and ends at now
C24_Witness ==
    /\ Returned("GetDesiredReplicas")
    /\ fnIn.res.windows = <<Window(0, 2, 2)>>
    /\ fnIn.now = 2
    /\ fnOut = 3

\* C25: when no window of the resource covers now, GetDesiredReplicas returns
\* originalReplicas, whatever the number of windows (none included); it
\* returns a count for every resource and every now.
C25_OriginalOutsideWindows ==
    Returned("GetDesiredReplicas") =>
        LET ws == fnIn.res.windows
        IN  /\ fnOut \in Int
            /\ (\A i \in 1..Len(ws) :
                    ~(ws[i].startTime <= fnIn.now /\ fnIn.now < ws[i].endTime))
                 => fnOut = fnIn.res.originalReplicas

\* GetDesiredReplicas returned the original count for a resource with two
\* windows, one over and one not yet begun
C25_Witness ==
    /\ Returned("GetDesiredReplicas")
    /\ fnIn.res.windows = <<Window(0, 1, 2), Window(2, 2, 2)>>
    /\ fnIn.now = 1
    /\ fnOut = 3 /\ fnOut = fnIn.res.originalReplicas

\* C26: when several windows cover now, GetDesiredReplicas returns the
\* replicas of the one with the smallest index.
C26_FirstMatchWins ==
    Returned("GetDesiredReplicas") =>
        LET ws == fnIn.res.windows
            covering == {i \in 1..Len(ws) :
                            ws[i].startTime <= fnIn.now /\ fnIn.now < ws[i].endTime}
        IN  \A i \in covering :
                (\A j \in covering : i <= j) => fnOut = ws[i].replicas

\* two windows cover now, the first shorter and starting later than the
\* second, and GetDesiredReplicas returned the first one's count
C26_Witness ==
    /\ Returned("GetDesiredReplicas")
    /\ fnIn.res.windows = <<Window(1, 2, 2), Window(0, 2, 0 - 1)>>
    /\ fnIn.now = 1
    /\ fnOut = 2

\* C27: Resource.Validate returns an error exactly when name, namespace,
\* target.name or target.kind is empty, originalReplicas is negative, or a
\* window has startTime >= endTime or negative replicas; when the windows
\* hold the only defect the error names the (0-based) index of the first
\* such window.
C27_ValidateExactly ==
    Returned("Validate") =>
        LET r == fnIn.res
            ws == r.windows
            fieldsBad == \/ r.name = "" \/ r.namespace = ""
                         \/ r.target.name = "" \/ r.target.kind = ""
                         \/ r.originalReplicas < 0
            bad == {i \in 1..Len(ws) :
                        ws[i].startTime >= ws[i].endTime \/ ws[i].replicas < 0}
            indexText == <<"0", "1", "2", "3">>
        IN  /\ (fnOut # "ok") = (fieldsBad \/ bad # {})
            /\ \A i \in bad :
                  (~fieldsBad /\ \A j \in bad : i <= j) =>
                      fnOut \in {"window " \o indexText[i] \o " is invalid: " \o why :
                                    why \in {"start time must be before end time",
                                             "replicas cannot be negative"}}

\* Validate named window 0 for a resource whose two windows both are invalid
C27_Witness ==
    /\ Returned("Validate")
    /\ fnIn.res = Resource("web", "default", "web", "Deployment", 3,
                           <<Window(0, 1, 0 - 1), Window(1, 1, 2)>>)
    /\ fnOut = "window 0 is invalid: replicas cannot be negative"

\* C28: ScalingWindow.Validate returns an error exactly when
\* startTime >= endTime or replicas < 0; GetDesiredReplicas validates
\* nothing: it returns the count of the first window covering now even when
\* that count is negative.
C28_WindowValidateExactly ==
    /\ Returned("WindowValidate") =>
         (fnOut # "ok") =
             (fnIn.w.startTime >= fnIn.w.endTime \/ fnIn.w.replicas < 0)
    /\ Returned("GetDesiredReplicas") =>
         LET ws == fnIn.res.windows
         IN  (/\ Len(ws) > 0
              /\ ws[1].startTime <= fnIn.now /\ fnIn.now < ws[1].endTime
              /\ ws[1].replicas < 0) => fnOut = ws[1].replicas

\* Validate refused a window with startTime = endTime and a valid count
C28_Witness ==
    /\ Returned("WindowValidate")
    /\ fnIn.w = Window(1, 1, 2)
    /\ fnOut = "start time must be before end time"

\* C29: LocalProvider.Load returns an error for an unreadable and for a
\* malformed file whatever validate is; for a well-formed document without
\* resources it returns the no-resources error when validate is true and
\* the empty list, without error, when validate is false.
C29_LocalLoadEmpty ==
    Returned("LocalLoad") =>
        /\ fnIn.file.state \in {"unreadable", "malformed"} =>
             fnOut.err # "nil" /\ fnOut.resources = <<>>
        /\ (fnIn.file.state = "ok" /\ fnIn.file.doc = <<>>) =>
             IF fnIn.validate
             THEN fnOut = [err |-> "no resources defined", resources |-> <<>>]
             ELSE fnOut = [err |-> "nil", resources |-> <<>>]

\* Load(false) returned the empty list for a well-formed empty document
C29_Witness ==
    /\ Returned("LocalLoad")
    /\ fnIn.file = [state |-> "ok", doc |-> <<>>]
    /\ ~fnIn.validate
    /\ fnOut = [err |-> "nil", resources |-> <<>>]

\* C30: fetchConfig, given a response, returns the status-code error exactly
\* when the status is outside 200..299; a well-formed body under any 2xx
\* status is decoded and, validation aside, returned.
C30_FailsExactlyOnNon2xx ==
    (Returned("FetchConfig") /\ fnIn.resp.status # 0) =>
        LET status == fnIn.resp.status
            codeText == CASE status = 200 -> "200" [] status = 201 -> "201"
                          [] status = 404 -> "404" [] status = 503 -> "503"
        IN  /\ (fnOut.err = "unexpected status code " \o codeText)
                    = (status \notin 200..299)
            /\ (status \in 200..299 /\ fnIn.resp.wellFormed /\ ~fnIn.validate) =>
                fnOut = [err |-> "nil", resources |-> fnIn.resp.doc]

\* C31: the decoder of a fetched document follows the response's content
\* type when it names JSON or YAML, and the URL's suffix only when the
\* content type names neither: a response declaring JSON is decoded as JSON
\* even when the URL ends in .yaml or .yml.
C31_ContentTypeDecides ==
    Returned("Decoder") =>
        LET ct == fnIn.contentType
            declaresJson == \E i \in 1..Len(ct) : ct[i] = "json"
            declaresYaml == \E i \in 1..Len(ct) : ct[i] \in {"yaml", "yml"}
            suffix == fnIn.url[Len(fnIn.url)]
        IN  /\ declaresJson => fnOut = "json"
            /\ declaresYaml => fnOut = "yaml"
            /\ (~declaresJson /\ ~declaresYaml) =>
                  fnOut = IF suffix \in {".yaml", ".yml"} THEN "yaml" ELSE "json"

\* C32: NewRemoteProvider returns an error exactly when the URL is empty or
\* the poll interval is not positive, and then has started no pollConfig
\* goroutine; when it succeeds it has started exactly one.
C32_NewRemoteProviderExactly ==
    Returned("NewRemoteProvider") =>
        /\ (fnOut.err # "nil") = (Len(fnIn.url) = 0 \/ fnIn.interval < 1)
        /\ fnOut.tasks = IF fnOut.err = "nil" THEN 1 ELSE 0

\* NewRemoteProvider refused a zero interval for a set URL and started no
\* goroutine
C32_Witness ==
    /\ Returned("NewRemoteProvider")
    /\ Len(fnIn.url) > 0 /\ fnIn.interval = 0
    /\ fnOut = [err |-> "poll interval must be positive", tasks |-> 0]

\* C38: for a resource that passes Validate, GetDesiredReplicas returns, at
\* every now, a count that is not negative and is originalReplicas or the
\* replicas of one of its windows.
C38_ValidatedNonNegative ==
    (Returned("GetDesiredReplicas") /\ IsValid(fnIn.res)) =>
        /\ fnOut >= 0
        /\ fnOut \in {fnIn.res.originalReplicas}
                      \cup {fnIn.res.windows[i].replicas :
                               i \in 1..Len(fnIn.res.windows)}

\* GetDesiredReplicas returned the count of the second window of a valid
\* resource
C38_Witness ==
    /\ Returned("GetDesiredReplicas")
    /\ IsValid(fnIn.res)
    /\ fnIn.res.windows = <<Window(0, 1, 2), Window(1, 2, 2)>>
    /\ fnIn.now = 1
    /\ fnOut = 2

\* C33: once a Scheduler.Stop call has returned, the control loop begins no
\* source load and makes no scaler call, however Start and Stop interleave.
C33_NoWorkAfterStop ==
    [][(\E c \in Stoppers : stopPc[c] = "returned") =>
          /\ passes' = passes
          /\ ~(loopPc = "scaling" /\ idx' # idx)]_vars

\* C34: with the stop channel closed or the context cancelled while the loop
\* is at its select, the loop begins no new evaluation pass, a pending tick
\* notwithstanding.
C34_NoPassOnceSignalled ==
    [][(loopPc = "select" /\ (stopCh \/ ctxDone)) => loopPc' # "pass"]_vars

\* C40: a pass whose Load(true) returned no resources and no error makes no
\* scaler call, returns nil and leaves the loop at its select, waiting for
\* the next tick.
C40_EmptyLoadIsNoOp ==
    [][(passes' = passes + 1 /\ lastLoad' = "empty") =>
          /\ loopPc' = "select"
          /\ passErr' = "nil"
          /\ passesDone' = passesDone + 1
          /\ attempts' = <<>> /\ idx' = 0 /\ loaded' = <<>>]_vars

\* after a pass that loaded nothing the next tick began another pass, which
\* loaded nothing either and returned nil
C40_Witness ==
    /\ lastLoad = "empty"
    /\ passes = 2 /\ passesDone = 2
    /\ ticksTaken = 1
    /\ passErr = "nil"
    /\ loopPc = "select"
    /\ attempts = <<>>

\* C36: a Reconcile call changes the CRDProvider cache in two ways only: it
\* removes the entry of the request's identity when r.Get reports the object
\* as not found, and it stores the translated resource under that identity
\* when the resource passes Validate; after any other read error and for a
\* resource failing Validate the cache is as it was. Every entry a
\* Reconcile call writes is valid.
C36_ReconcileCacheEffects ==
    [][recCalls' = recCalls + 1 =>
         LET k == recLast'.key
             read == recLast'.read
             others == \A j \in CRDKeys \ {k} : crdCache'[j] = crdCache[j]
         IN  /\ k \in CRDKeys
             /\ others
             /\ read.kind = "notfound" => crdCache'[k] = NoEntry
             /\ read.kind = "error" => crdCache'[k] = crdCache[k]
             /\ read.kind = "found" =>
                  IF ResourceValidate(read.object[1]) = "ok"
                  THEN crdCache'[k] = read.object
                  ELSE crdCache'[k] = crdCache[k]
             /\ (crdCache'[k] # crdCache[k] /\ crdCache'[k] # NoEntry) =>
                  ResourceValidate(crdCache'[k][1]) = "ok"]_vars

\* a second Reconcile read an invalid version of the object the first had
\* stored, and the stored valid version is still there
C36_Witness ==
    /\ recCalls = 2
    /\ recLast.key = "default/web"
    /\ recLast.read.kind = "found"
    /\ ~IsValid(recLast.read.object[1])
    /\ crdCache["default/web"] # NoEntry
    /\ IsValid(crdCache["default/web"][1])

\* C37: the store has one slot per (namespace, name): UpdateResource puts
\* its argument in the slot of its identity, replacing what was there, and
\* touches no other slot; DeleteResource of an identity that is absent
\* leaves the store as it was; a Load that ran with no concurrent write
\* returns at most one resource per identity, the one last upserted.
C37_OneEntryPerIdentity ==
    /\ [][\A r \in CRDResources :
            LET key == KeyOf(r) IN
            /\ UpdateResource(r) =>
                 /\ crdCache'[key] = <<r>>
                 /\ \A j \in CRDKeys \ {key} : crdCache'[j] = crdCache[j]
            /\ (DeleteResource(r.namespace, r.name) /\ crdCache[key] = NoEntry) =>
                 crdCache' = crdCache]_vars
    /\ []((crdPc = "returned" /\ ~crdDirty) =>
            \A i, j \in 1..Len(crdResult) :
                /\ KeyOf(crdResult[i]) = KeyOf(crdResult[j]) => i = j
                /\ <<crdResult[i]>> = crdWritten[KeyOf(crdResult[i])])

\* an identity's resource was replaced by another version, and a quiet
\* Load(false) returned that version alone
C37_Witness ==
    /\ crdPc = "returned" /\ ~crdValidate /\ ~crdDirty
    /\ crdReplaced = {"default/web"}
    /\ Len(crdResult) = 1
    /\ <<crdResult[1]>> = crdCache["default/web"]
    /\ crdCache["default/db"] = NoEntry

\* C35 (as claimed): the snapshot never regresses: updateCache never stores
\* the result of pollConfig's fetch over a snapshot that holds the result of
\* a fetch issued after it
C35_SnapshotNeverRegresses ==
    [][(srcPollPc = "update" /\ srcPollPc' = "wait") => ~srcPollOvertaken]_vars

(***************************************************************************)
(* RemoteProvider.Stop called directly by concurrent goroutines, beside    *)
(* pollConfig and callers of RemoteProvider.Load.                          *)
(***************************************************************************)
\* a goroutine calls r.Stop()
RemoteStopCall(c) ==
    /\ rsPc[c] = "idle"
    /\ rsPc' = [rsPc EXCEPT ![c] = "lock"]
    /\ UNCHANGED <<schedVars, pollVars, crdVars, srcVars, scaleVars, fnVars>>

\* Stop: r.stoppedMu.Lock(); if !r.stopped { close(r.stopCh); r.stopped = true
\* ...; otherwise the deferred Unlock and return
RemoteStopLock(c) ==
    /\ rsPc[c] = "lock"
    /\ stoppedMu = 0
    /\ IF StopNeeded(rStopped)
       THEN /\ rStopCh' = TRUE
            /\ rCloseCount' = rCloseCount + 1
            /\ rStopped' = TRUE
            /\ stoppedMu' = c
            /\ pollPc' = IF pollPc = "blocked" THEN "woke_stop" ELSE pollPc
            /\ rsPc' = [rsPc EXCEPT ![c] = "wait"]
       ELSE /\ rsPc' = [rsPc EXCEPT ![c] = "returned"]
            /\ UNCHANGED <<rStopCh, rCloseCount, rStopped, stoppedMu, pollPc>>
    /\ UNCHANGED <<rWg, rTickPending, pollFetches>>
    /\ UNCHANGED <<schedVars, crdVars, srcVars, scaleVars, fnVars>>

\* Stop: ... r.wg.Wait() }, the deferred r.stoppedMu.Unlock(), return
RemoteStopWait(c) ==
    /\ rsPc[c] = "wait"
    /\ WaitDone(rWg)
    /\ stoppedMu' = 0
    /\ rsPc' = [rsPc EXCEPT ![c] = "returned"]
    /\ UNCHANGED <<pollPc, rStopCh, rCloseCount, rStopped, rWg, rTickPending,
                   pollFetches>>
    /\ UNCHANGED <<schedVars, crdVars, srcVars, scaleVars, fnVars>>

\* pollConfig: resources, err := r.fetchConfig(true) returns; an error sends
\* the goroutine back to the select
PollFetchResult ==
    /\ pollPc = "fetch"
    /\ srcPollPc = "wait"
    /\ \E resp \in Responses :
        LET out == FetchConfig(resp, TRUE) IN
        IF out.err # "nil"
        THEN /\ pollPc' = "select"
             /\ UNCHANGED <<srcPollPc, srcPollFetched>>
        ELSE /\ srcPollPc' = "update"
             /\ srcPollFetched' = out.resources
             /\ UNCHANGED pollPc
    /\ srcPollOvertaken' = FALSE
    /\ UNCHANGED <<srcNow, srcCache, cacheMu, loadPc, loadArg, loadPartial,
                   loadResult, loadPath, loadCalls>>
    /\ UNCHANGED <<rStopCh, rCloseCount, rStopped, stoppedMu, rWg, rTickPending,
                   pollFetches>>
    /\ UNCHANGED <<schedVars, crdVars, scaleVars, fnVars, rsVars>>

\* pollConfig: r.updateCache(resources), then back to the select
PollUpdateCache ==
    /\ pollPc = "fetch"
    /\ srcPollPc = "update"
    /\ cacheMu = 0
    /\ srcCache' = NewSnapshot(srcPollFetched, srcNow)
    /\ srcPollFetched' = <<>>
    /\ srcPollOvertaken' = FALSE
    /\ srcPollPc' = "wait"
    /\ pollPc' = "select"
    /\ UNCHANGED <<srcNow, cacheMu, loadPc, loadArg, loadPartial, loadResult,
                   loadPath, loadCalls>>
    /\ UNCHANGED <<rStopCh, rCloseCount, rStopped, stoppedMu, rWg, rTickPending,
                   pollFetches>>
    /\ UNCHANGED <<schedVars, crdVars, scaleVars, fnVars, rsVars>>

RemoteStopStep(c) == RemoteStopLock(c) \/ RemoteStopWait(c)

RemoteLoadStep(l) == RLoadFast(l) \/ RLoadLock(l) \/ RLoadFetch(l)

\* the goroutine that calls r.Load(true) beside the callers of Stop, as
\* checkAndScale does
StopLoader == CHOOSE l \in Loaders : TRUE

PollStopStep ==
    \/ PollBegin \/ PollSelectStop \/ PollSelectTick \/ PollSelectBlock
    \/ PollWokeReturn \/ PollFetchResult \/ PollUpdateCache

NextStop ==
    \/ \E c \in Stoppers : RemoteStopCall(c) \/ RemoteStopStep(c)
    \/ PollStopStep
    \/ PollTick
    \/ LoadCall(StopLoader, "remote", TRUE)
    \/ RemoteLoadStep(StopLoader) \/ LoadDone(StopLoader)
    \/ Advance

InitStop == Init /\ providerKind = "remote"
SpecStop == InitStop /\ [][NextStop]_vars

\* goroutines are scheduled, fetchConfig returns (the http client times out),
\* a select with r.stopCh closed takes that case sooner or later, and a
\* goroutine waiting for cacheMu gets it
FairSpecStop ==
    /\ SpecStop
    /\ \A c \in Stoppers : WF_vars(RemoteStopStep(c))
    /\ WF_vars(RemoteLoadStep(StopLoader))
    /\ WF_vars(PollStopStep)
    /\ SF_vars(PollSelectStop)
    /\ SF_vars(PollUpdateCache)

\* what one step of RemoteProvider.Load by l does, from the cache and the
\* clock alone: the fast path, the double-check, then the fetch with its
\* store, its stale fallback or its error
LoadBehaves(l) ==
    /\ (loadPc[l] = "fast" /\ loadPc'[l] # "fast") =>
          IF CacheFresh(srcCache, srcNow)
          THEN /\ loadPc'[l] = "done" /\ loadPath'[l] = "hit"
               /\ loadResult'[l] = Loaded(srcCache[1].resources)
               /\ srcCache' = srcCache
          ELSE loadPc'[l] = "lock" /\ srcCache' = srcCache
    /\ (loadPc[l] = "lock" /\ loadPc'[l] # "lock") =>
          IF CacheFresh(srcCache, srcNow)
          THEN /\ loadPc'[l] = "done" /\ loadPath'[l] = "recheck"
               /\ loadResult'[l] = Loaded(srcCache[1].resources)
               /\ srcCache' = srcCache
          ELSE loadPc'[l] = "fetch" /\ cacheMu' = l /\ srcCache' = srcCache
    /\ (loadPc[l] = "fetch" /\ loadPc'[l] # "fetch") =>
          /\ loadPc'[l] = "done"
          /\ cacheMu' = 0
          /\ \/ /\ loadPath'[l] = "fetched"
                /\ loadResult'[l].err = "nil"
                /\ srcCache' = NewSnapshot(loadResult'[l].resources, srcNow)
             \/ /\ loadPath'[l] = "fallback"
                /\ srcCache # NoCache
                /\ loadResult'[l] = Loaded(srcCache[1].resources)
                /\ srcCache' = srcCache
             \/ /\ loadPath'[l] = "error"
                /\ srcCache = NoCache
                /\ loadResult'[l].err \notin {"nil", "none"}
                /\ srcCache' = srcCache

\* C39: RemoteProvider.Stop is idempotent and safe under concurrent callers:
\* r.stopCh is closed exactly once (never twice, and once as soon as a caller
\* has returned), every caller of Stop returns, and every step of a Load,
\* those of a Load called after Stop has returned included, does what it
\* does before Stop: cache hit, on-demand fetch or stale fallback
C39_StopIdempotent ==
    /\ [](rCloseCount <= 1)
    /\ [](\A c \in Stoppers :
            rsPc[c] = "returned" => (rCloseCount = 1 /\ rStopCh /\ rStopped))
    /\ \A c \in Stoppers : (rsPc[c] = "lock") ~> (rsPc[c] = "returned")
    /\ [][\A l \in Loaders : LoadBehaves(l)]_vars

\* both callers of Stop have returned, the channel was closed once, pollConfig
\* has exited, and a Load called after Stop had returned fell back to the
\* stale snapshot
C39_Witness ==
    /\ \A c \in Stoppers : rsPc[c] = "returned"
    /\ rCloseCount = 1
    /\ pollPc = "exited"
    /\ \E l \in Loaders :
        /\ loadPc[l] = "done"
        /\ loadArg[l].afterStop
        /\ loadPath[l] = "fallback"

====
